---- MODULE Spec2Model ----
(***************************************************************************)
(* CfshareManager (src/src/shims.d.ts): the session table, the bring-up of *)
(* port and files exposures, stopExposure and its callers (TTL timer,      *)
(* reaper, user stop, max-downloads check, bring-up catch), the tunnel     *)
(* child and the download accounting of the file origin.                   *)
(*                                                                         *)
(* JavaScript runs one synchronous block at a time: an action of the model *)
(* is the code between two awaits (the resumption of a suspended call, run *)
(* to its next await).  Handlers are written as functions from the program *)
(* state (a record of all variables) to the program state, so that blocks  *)
(* that run without a suspension in between compose into one action.       *)
(***************************************************************************)
EXTENDS Integers, Sequences, FiniteSets, TLC

\* ---- bounds ----
MaxSessions == 1        \* exposures created in one run
MaxRequests == 3        \* download requests served per session
MaxStops == 2           \* stopExposure calls of timers and requests in flight at once

\* ---- program constants ----
MaxAttempts == 2        \* startTunnelWithRetry maxAttempts
MinPort == 1
MaxPort == 65535

Ids == 1..MaxSessions

Statuses == {"starting", "running", "stopped", "error", "expired"}
Terminal == {"stopped", "error", "expired"}
Srcs == {"ttl", "reaper", "user", "maxdl", "catch"}

\* policy.blockedPorts (defaults)
BlockedPorts == {22, 2375, 2376}

\* port arguments of expose_port, in tenths (5 is 0.5, 655359 is 65535.9);
\* NotANumber stands for an argument whose Math.trunc is NaN
NotANumber == -9999999
PortInputs == {NotANumber, -10, 0, 5, 10, 220, 80805, 655359, 655360}

\* opts.max_downloads of expose_files; 0 stands for "not given"
MaxDownloadInputs == {0, 1}

VARIABLES
  tab,        \* this.sessions: the ids in the session table
  status,     \* session.status ("none": no such session object yet)
  stype,      \* session.type
  timer,      \* session.timeoutHandle: "armed" while the TTL timer is pending
  child,      \* the tunnel child spawned last: "none", "alive", "exited"
  killed,     \* proc.killed of that child (a signal was sent through proc.kill)
  procSet,    \* session.process is set (and the exit listener attached)
  stray,      \* a timed-out attempt's child, sent SIGTERM, has not exited yet
  proxy,      \* session.proxyServer: "none", "listening", "closed"
  origin,     \* session.originServer: "none", "listening", "closed"
  ws,         \* <stateDir>/workspaces/<id> exists on disk
  dl,         \* session.stats.downloads
  maxDl,      \* session.maxDownloads (0: undefined)
  streams,    \* download responses whose body is being piped
  expd,       \* Date.now() >= expiresAt
  audit,      \* audit.jsonl: the events appended, in order
  snap,       \* sessions.json: the records last written
  up,         \* the exposePort / exposeFiles call of each id
  calls,      \* the stopExposure call of each source and id
  reapTodo,   \* reapExpired: ids of toStop still to be stopped
  stoppedBy   \* history: the callers whose stopExposure call listed the id in `stopped`

\* The state of the components that are checked on their own (one call or one
\* request at a time, each under a specification of its own).
VARIABLES
  mgr,        \* stopExposure alone: this.sessions, the session objects, the files
  stopCall,   \* stopExposure alone: the call's locals and its result
  limiter,    \* reverse proxy: the policy and the Map of buildRateLimiter's closure
  rlLog,      \* history: the requests the limiter has decided, in order
  psession,   \* reverse proxy: session.access and session.stats
  preq,       \* reverse proxy: the request being handled and its response
  logs,       \* appendLog: session.logs
  appended,   \* history: the number of entries appended so far
  creation,   \* exposePort / exposeFiles from the options to the tunnel target: the options, the clock reads and the session fields derived from them
  merge,      \* mergePolicy: the plugin config, the policy file's object, the result
  pstore,     \* set_policy: policy.json, this.policy and the calls in flight
  gc,         \* run_gc: the table, the workspaces root, the snapshot, the pids, the call
  forigin,    \* file origin: the served workspace, the request and its response
  tun,        \* startTunnelWithRetry: the attempts, their children, timers and outcomes
  aquery,     \* auditQuery: audit.jsonl, the filters and the events returned
  traffic,    \* session.stats of one exposure, the request in flight, what the client received
  cli         \* cli.ts: the parent, the detached worker, the handoff file, the clock

lifeVars == <<tab, status, stype, timer, child, killed, procSet, stray, proxy, origin,
              ws, dl, maxDl, streams, expd, audit, snap, up, calls, reapTodo, stoppedBy>>
stopVars == <<mgr, stopCall>>
proxyVars == <<limiter, rlLog, psession, preq>>
logVars == <<logs, appended>>
creationVars == <<creation>>
partVars == <<merge, pstore, gc, forigin, tun, aquery, traffic, cli>>
unitVars == <<stopVars, proxyVars, logVars, creationVars, partVars>>

vars == <<lifeVars, unitVars>>

\* a component that takes no part in the specification at hand
Unused == [pc |-> "unused"]
StopUnused == mgr = Unused /\ stopCall = Unused
ProxyUnused == limiter = Unused /\ rlLog = Unused /\ psession = Unused /\ preq = Unused
LogUnused == logs = Unused /\ appended = Unused
CreationUnused == creation = Unused
MergeUnused == merge = Unused
PstoreUnused == pstore = Unused
GcUnused == gc = Unused
ForiginUnused == forigin = Unused
TunUnused == tun = Unused
AqueryUnused == aquery = Unused
TrafficUnused == traffic = Unused
CliUnused == cli = Unused
PartsUnused ==
  /\ MergeUnused /\ PstoreUnused /\ GcUnused /\ ForiginUnused /\ TunUnused /\ AqueryUnused
  /\ TrafficUnused /\ CliUnused
UnitsUnused == StopUnused /\ ProxyUnused /\ LogUnused /\ CreationUnused

\* what a specification of one component leaves alone
NotStopVars == <<lifeVars, proxyVars, logVars, creationVars, partVars>>
NotProxyVars == <<lifeVars, stopVars, logVars, creationVars, partVars>>
NotLogVars == <<lifeVars, stopVars, proxyVars, creationVars, partVars>>
NotCreationVars == <<lifeVars, stopVars, proxyVars, logVars, partVars>>
baseVars == <<lifeVars, stopVars, proxyVars, logVars, creationVars>>
NotMergeVars == <<baseVars, pstore, gc, forigin, tun, aquery, traffic, cli>>
NotPstoreVars == <<baseVars, merge, gc, forigin, tun, aquery, traffic, cli>>
NotGcVars == <<baseVars, merge, pstore, forigin, tun, aquery, traffic, cli>>
NotForiginVars == <<baseVars, merge, pstore, gc, tun, aquery, traffic, cli>>
NotTunVars == <<baseVars, merge, pstore, gc, forigin, aquery, traffic, cli>>
NotAqueryVars == <<baseVars, merge, pstore, gc, forigin, tun, traffic, cli>>
NotTrafficVars == <<baseVars, merge, pstore, gc, forigin, tun, aquery, cli>>
NotCliVars == <<baseVars, merge, pstore, gc, forigin, tun, aquery, traffic>>

Cur ==
  [tab |-> tab, status |-> status, stype |-> stype, timer |-> timer, child |-> child,
   killed |-> killed, procSet |-> procSet, stray |-> stray, proxy |-> proxy,
   origin |-> origin, ws |-> ws, dl |-> dl, maxDl |-> maxDl, streams |-> streams,
   expd |-> expd, audit |-> audit, snap |-> snap, up |-> up, calls |-> calls,
   reapTodo |-> reapTodo, stoppedBy |-> stoppedBy]

Commit(s) ==
  /\ tab' = s.tab /\ status' = s.status /\ stype' = s.stype /\ timer' = s.timer
  /\ child' = s.child /\ killed' = s.killed /\ procSet' = s.procSet /\ stray' = s.stray
  /\ proxy' = s.proxy /\ origin' = s.origin /\ ws' = s.ws /\ dl' = s.dl
  /\ maxDl' = s.maxDl /\ streams' = s.streams /\ expd' = s.expd /\ audit' = s.audit
  /\ snap' = s.snap /\ up' = s.up /\ calls' = s.calls /\ reapTodo' = s.reapTodo
  /\ stoppedBy' = s.stoppedBy
  /\ UNCHANGED unitVars

IdleUp == [pc |-> "idle", attempt |-> 0, port |-> 0, useProxy |-> FALSE, err |-> "none"]
IdleCall == [pc |-> "idle", res |-> "none"]

LifeInit ==
  /\ tab = {}
  /\ status = [i \in Ids |-> "none"]
  /\ stype = [i \in Ids |-> "none"]
  /\ timer = [i \in Ids |-> "unset"]
  /\ child = [i \in Ids |-> "none"]
  /\ killed = [i \in Ids |-> FALSE]
  /\ procSet = [i \in Ids |-> FALSE]
  /\ stray = [i \in Ids |-> FALSE]
  /\ proxy = [i \in Ids |-> "none"]
  /\ origin = [i \in Ids |-> "none"]
  /\ ws = [i \in Ids |-> FALSE]
  /\ dl = [i \in Ids |-> 0]
  /\ maxDl = [i \in Ids |-> 0]
  /\ streams = [i \in Ids |-> 0]
  /\ expd = [i \in Ids |-> FALSE]
  /\ audit = <<>>
  /\ snap = {}
  /\ up = [i \in Ids |-> IdleUp]
  /\ calls = [i \in Ids |-> [src \in Srcs |-> IdleCall]]
  /\ reapTodo = <<>>
  /\ stoppedBy = [i \in Ids |-> {}]

Init == LifeInit /\ UnitsUnused /\ PartsUnused

\* ------------------------------------------------------------------------
\* persistSessionsSnapshot: the records of the sessions in the table
SnapshotOf(s) == {[id |-> j, status |-> s.status[j]] : j \in s.tab}

PersistSnapshot(s) == [s EXCEPT !.snap = SnapshotOf(s)]

\* writeAudit
WriteAudit(s, ev, i) == [s EXCEPT !.audit = Append(@, [event |-> ev, id |-> i])]

\* ------------------------------------------------------------------------
\* stopExposure(id, opts).  opts.expired is set by the TTL timer and the reaper.
OptsExpired(src) == src \in {"ttl", "reaper"}

SetCall(s, i, src, pc, res) == [s EXCEPT !.calls[i][src] = [pc |-> pc, res |-> res]]

\* mutant: opts.expired is ignored
TransitionIgnoringExpired(s, i, src) ==
  SetCall(WriteAudit([s EXCEPT !.status[i] = "stopped", !.stoppedBy[i] = @ \cup {src}],
                     "exposure_stopped", i),
          i, src, "audit", "stopped")

\* status change, stopped.push(id), writeAudit(...) issued; suspended in writeAudit
Transition(s, i, src) ==
  LET s1 == [s EXCEPT !.status[i] = IF OptsExpired(src) THEN "expired" ELSE "stopped",
                      !.stoppedBy[i] = @ \cup {src}]
      s2 == WriteAudit(s1, IF OptsExpired(src) THEN "exposure_expired" ELSE "exposure_stopped", i)
  IN SetCall(s2, i, src, "audit", "stopped")

\* the cleanup from the proxy close (stage 1), the origin close (stage 2) or the
\* workspace check (stage 3) up to the next await
StopContinue(s, i, src, stage) ==
  IF stage <= 1 /\ s.proxy[i] = "listening"
  THEN SetCall([s EXCEPT !.proxy[i] = "closed"], i, src, "proxyClose", "none")
  ELSE IF stage <= 2 /\ s.origin[i] = "listening"
  THEN SetCall([s EXCEPT !.origin[i] = "closed"], i, src, "originClose", "none")
  ELSE IF s.stype[i] = "files"
  THEN SetCall(s, i, src, "fsCheck", "none")
  ELSE Transition(s, i, src)

\* stopExposure returns: the continuation of its caller.  The reaper awaits the
\* call inside its loop; the TTL timer discards the promise; the bring-up's catch
\* rethrows; the download handler ends; the user gets the result.
Finish(s, i, src, res) ==
  CASE src = "catch" -> [SetCall(s, i, src, "idle", "none") EXCEPT !.up[i].pc = "threw"]
    [] src = "reaper" -> SetCall(s, i, src, "done", res)
    [] src = "user" -> SetCall(s, i, src, "idle", res)
    [] OTHER -> SetCall(s, i, src, "idle", "none")

\* the lookup of the id, clearTimeout and terminateProcess up to its wait for exit
StopBegin(s, i, src) ==
  IF i \notin s.tab
  THEN Finish(s, i, src, "not_found")
  ELSE LET s1 == [s EXCEPT !.timer[i] = "unset"]
       IN IF s1.procSet[i] /\ ~s1.killed[i] /\ s1.child[i] = "alive"
          THEN SetCall([s1 EXCEPT !.killed[i] = TRUE], i, src, "term", "none")
          ELSE StopContinue(s1, i, src, 1)

\* the child's exit: the listener attached at bring-up
ChildExited(s, i) ==
  [s EXCEPT !.child[i] = "exited",
            !.status[i] = IF s.procSet[i] /\ @ = "running" THEN "error" ELSE @]

\* mutant: the status changes without the workspace being removed
StopResumeKeepingWorkspace(s, i, src) ==
  LET pc == s.calls[i][src].pc IN
  CASE pc = "term" ->
         StopContinue(IF s.child[i] = "alive" THEN ChildExited(s, i) ELSE s, i, src, 1)
    [] pc = "proxyClose" -> StopContinue(s, i, src, 2)
    [] pc = "originClose" -> StopContinue(s, i, src, 3)
    [] pc = "fsCheck" -> Transition(s, i, src)
    [] pc = "rm" -> Transition([s EXCEPT !.ws[i] = FALSE], i, src)
    [] pc = "audit" ->
         SetCall(PersistSnapshot([s EXCEPT !.tab = @ \ {i}]), i, src, "persist", "stopped")
    [] pc = "persist" -> Finish(s, i, src, "stopped")

\* the resumption of a suspended stopExposure call
StopResume(s, i, src) ==
  LET pc == s.calls[i][src].pc IN
  CASE pc = "term" ->
         \* the exit event, or the 2.5 s timer and SIGKILL
         StopContinue(IF s.child[i] = "alive" THEN ChildExited(s, i) ELSE s, i, src, 1)
    [] pc = "proxyClose" -> StopContinue(s, i, src, 2)
    [] pc = "originClose" -> StopContinue(s, i, src, 3)
    [] pc = "fsCheck" ->
         IF s.ws[i] THEN SetCall(s, i, src, "rm", "none") ELSE Transition(s, i, src)
    [] pc = "rm" -> Transition([s EXCEPT !.ws[i] = FALSE], i, src)
    [] pc = "audit" ->
         \* finally: sessions.delete(id); then persistSessionsSnapshot()
         SetCall(PersistSnapshot([s EXCEPT !.tab = @ \ {i}]), i, src, "persist", "stopped")
    [] pc = "persist" -> Finish(s, i, src, "stopped")

InFlight == {"term", "proxyClose", "originClose", "fsCheck", "rm", "audit", "persist"}

\* room for one more stopExposure call of a timer or a request
CanStop ==
  Cardinality({c \in Ids \X Srcs : calls[c[1]][c[2]].pc \in InFlight}) < MaxStops

StopStep(i, src) ==
  /\ calls[i][src].pc \in InFlight
  /\ Commit(StopResume(Cur, i, src))

\* ------------------------------------------------------------------------
\* Bring-up: exposePort and exposeFiles.

\* Math.trunc of a port given in tenths
Trunc10(p) == IF p >= 0 THEN p \div 10 ELSE -((-p) \div 10)

\* mutant: the blocked-ports test is missing
ValidatePortUnblocked(p) ==
  IF p = NotANumber THEN "invalid port"
  ELSE IF Trunc10(p) < MinPort \/ Trunc10(p) > MaxPort THEN "invalid port"
  ELSE "ok"

\* the argument checks of exposePort: the error thrown, or "ok"
ValidatePort(p) ==
  IF p = NotANumber THEN "invalid port"
  ELSE IF Trunc10(p) < MinPort \/ Trunc10(p) > MaxPort THEN "invalid port"
  ELSE IF Trunc10(p) \in BlockedPorts THEN "port blocked by policy"
  ELSE "ok"

\* mutant: the proxy is inserted for protectOrigin or an allow-list only
NeedProxyPortIgnoringRateLimit(protectOpt, accessMode, allowlisted, rateLimited) ==
  LET protectOrigin == IF protectOpt = "unset" THEN accessMode # "none"
                       ELSE protectOpt = "true"
  IN protectOrigin \/ allowlisted

\* protectOrigin of exposePort and the test that inserts the reverse proxy
NeedProxyPort(protectOpt, accessMode, allowlisted, rateLimited) ==
  LET protectOrigin == IF protectOpt = "unset" THEN accessMode # "none"
                       ELSE protectOpt = "true"
  IN protectOrigin \/ allowlisted \/ rateLimited

\* this.sessions.set(id, session)
Insert(s, i, type) ==
  [s EXCEPT !.tab = @ \cup {i}, !.status[i] = "starting", !.stype[i] = type]

\* startTunnel: spawn(cloudflared), suspended until the attempt settles
Spawn(s, i, attempt) ==
  [s EXCEPT !.child[i] = "alive", !.killed[i] = FALSE,
            !.up[i].pc = "tunnel", !.up[i].attempt = attempt]

\* startReverseProxy issued, else startTunnelWithRetry
ProxyOrTunnel(s, i) ==
  IF s.up[i].useProxy THEN [s EXCEPT !.up[i].pc = "proxyStart"] ELSE Spawn(s, i, 1)

\* the catch block of exposePort / exposeFiles up to its await of stopExposure
Catch(s, i, err) ==
  StopBegin([s EXCEPT !.status[i] = "error", !.up[i].pc = "stopping", !.up[i].err = err],
            i, "catch")

Threw(s, i, err) == [s EXCEPT !.up[i].pc = "threw", !.up[i].err = err]

\* ids are handed out in order
Fresh(i) == up[i].pc = "idle" /\ (IF i = 1 THEN TRUE ELSE up[i - 1].pc # "idle")

ExposePort(i, p, protectOpt, accessMode, allowlisted, rateLimited) ==
  /\ Fresh(i)
  /\ Commit(IF ValidatePort(p) # "ok"
            THEN Threw([Cur EXCEPT !.up[i].port = p], i, ValidatePort(p))
            ELSE [Cur EXCEPT !.up[i].pc = "probe", !.up[i].port = p,
                             !.up[i].useProxy =
                                NeedProxyPort(protectOpt, accessMode, allowlisted, rateLimited)])

\* probeLocalPort settles; the session is created and inserted
ProbeDone(i, alive) ==
  /\ up[i].pc = "probe"
  /\ Commit(IF ~alive THEN Threw(Cur, i, "local service is not reachable")
            ELSE ProxyOrTunnel(Insert([Cur EXCEPT !.up[i].port = 0], i, "port"), i))

\* exposeFiles up to summarizeExposeInputs; mkdirp(workspaceDir) has run
ExposeFiles(i, noPaths, accessMode, md) ==
  /\ Fresh(i)
  /\ Commit(IF noPaths THEN Threw(Cur, i, "paths is required")
            ELSE [Cur EXCEPT !.ws[i] = TRUE, !.maxDl[i] = md, !.up[i].pc = "summarize",
                             !.up[i].useProxy = (accessMode # "none")])

\* summarizeExposeInputs settles (fs.stat of an input may throw: no session yet)
SummarizeDone(i, ok) ==
  /\ up[i].pc = "summarize"
  /\ Commit(IF ~ok THEN Threw(Cur, i, "input")
            ELSE [Insert(Cur, i, "files") EXCEPT !.up[i].pc = "copy"])

\* copyInputsToWorkspace settles: the copy (re)creates the directory
CopyDone(i, ok) ==
  /\ up[i].pc = "copy"
  /\ Commit(IF ~ok THEN Catch(Cur, i, "copy")
            ELSE [Cur EXCEPT !.ws[i] = TRUE, !.up[i].pc = "fileServer"])

\* startFileServer settles (walkFiles throws when the directory is gone)
FileServerDone(i, ok) ==
  /\ up[i].pc = "fileServer"
  /\ Commit(IF ~ok \/ ~ws[i] THEN Catch(Cur, i, "file server")
            ELSE ProxyOrTunnel([Cur EXCEPT !.origin[i] = "listening"], i))

\* startReverseProxy settles
ProxyDone(i, ok) ==
  /\ up[i].pc = "proxyStart"
  /\ Commit(IF ~ok THEN Catch(Cur, i, "proxy")
            ELSE Spawn([Cur EXCEPT !.proxy[i] = "listening"], i, 1))

\* a line with a quick-tunnel URL: startTunnelWithRetry returns; the session is
\* promoted, the exit listener attached, the TTL timer armed, the snapshot issued
TunnelUrl(i) ==
  /\ up[i].pc = "tunnel" /\ child[i] = "alive"
  /\ Commit(PersistSnapshot([Cur EXCEPT !.procSet[i] = TRUE, !.status[i] = "running",
                                        !.timer[i] = "armed", !.up[i].pc = "persist"]))

\* an attempt fails: the child exits before a URL, the 30 s timer sends SIGTERM,
\* or the spawn errors; retry, or throw after the last attempt
TunnelFail(i, how) ==
  /\ up[i].pc = "tunnel" /\ child[i] = "alive"
  /\ LET s1 == [Cur EXCEPT !.child[i] = IF how = "spawn error" THEN "none" ELSE "exited",
                           !.stray[i] = IF how = "timeout" THEN TRUE ELSE @]
     IN Commit(IF up[i].attempt < MaxAttempts THEN Spawn(s1, i, up[i].attempt + 1)
               ELSE Catch(s1, i, "tunnel"))

\* persistSessionsSnapshot done: exposure_started is written and the call returns
PersistDone(i) ==
  /\ up[i].pc = "persist"
  /\ Commit([WriteAudit(Cur, "exposure_started", i) EXCEPT !.up[i].pc = "returned"])

\* ------------------------------------------------------------------------
\* Time, the tunnel child, and the callers of stopExposure.

\* the clock passes expiresAt (the clock is read by the TTL timer and the reaper)
Tick(i) ==
  /\ ~expd[i]
  /\ IF timer[i] = "armed" THEN TRUE ELSE i \in tab /\ status[i] = "running"
  /\ Commit([Cur EXCEPT !.expd[i] = TRUE])

\* the tunnel child of a promoted session exits (on its own or on a signal)
ChildExit(i) ==
  /\ procSet[i] /\ child[i] = "alive"
  /\ Commit(ChildExited(Cur, i))

\* the child of a timed-out attempt exits
StrayExit(i) ==
  /\ stray[i]
  /\ Commit([Cur EXCEPT !.stray[i] = FALSE])

\* the TTL timer armed at bring-up fires
TtlFire(i) ==
  /\ timer[i] = "armed" /\ expd[i] /\ calls[i]["ttl"].pc = "idle" /\ CanStop
  /\ Commit(StopBegin([Cur EXCEPT !.timer[i] = "unset"], i, "ttl"))

\* reapExpired: the ids to stop, in table order
RECURSIVE SeqOf(_)
SeqOf(S) ==
  IF S = {} THEN <<>>
  ELSE LET m == CHOOSE x \in S : \A y \in S : x <= y IN <<m>> \o SeqOf(S \ {m})

ToStop(s) == SeqOf({i \in s.tab : s.status[i] = "running" /\ s.expd[i]})

Reap ==
  /\ reapTodo = <<>> /\ \A i \in Ids : calls[i]["reaper"].pc = "idle"
  /\ ToStop(Cur) # <<>> /\ CanStop
  /\ Commit(StopBegin([Cur EXCEPT !.reapTodo = Tail(ToStop(Cur))], Head(ToStop(Cur)), "reaper"))

\* exposure_stop of one id
UserStop(i) ==
  /\ status[i] # "none" /\ calls[i]["user"].pc = "idle" /\ CanStop
  /\ Commit(StopBegin(SetCall(Cur, i, "user", "idle", "none"), i, "user"))

\* a GET of a file of the workspace: the counter is incremented, the body piped
Download(i) ==
  /\ origin[i] = "listening" /\ ws[i] /\ dl[i] < MaxRequests
  /\ Commit([Cur EXCEPT !.dl[i] = @ + 1, !.streams[i] = @ + 1])

\* checkMaxDownloads
CheckMaxDownloads(s, i) ==
  IF s.maxDl[i] # 0 /\ s.dl[i] >= s.maxDl[i] THEN StopBegin(s, i, "maxdl") ELSE s

\* pipeline() settles: completely, and checkMaxDownloads runs, or with an error
\* of the response stream, and the handler's catch ends the response
StreamEnd(i, ok) ==
  /\ streams[i] > 0 /\ calls[i]["maxdl"].pc = "idle" /\ CanStop
  /\ Commit(IF ok THEN CheckMaxDownloads([Cur EXCEPT !.streams[i] = @ - 1], i)
            ELSE [Cur EXCEPT !.streams[i] = @ - 1])

\* reapExpired resumes after a stopExposure call and stops the next session
ReapNext(i) ==
  /\ calls[i]["reaper"].pc = "done"
  /\ LET s1 == [Cur EXCEPT !.calls[i]["reaper"] = IdleCall] IN
     Commit(IF s1.reapTodo = <<>> THEN s1
            ELSE StopBegin([s1 EXCEPT !.reapTodo = Tail(@)], Head(s1.reapTodo), "reaper"))

AccessModes == {"token", "basic", "none"}

Next ==
  \/ \E i \in Ids, p \in PortInputs, po \in {"unset", "true", "false"},
        am \in AccessModes, al \in BOOLEAN, rl \in BOOLEAN : ExposePort(i, p, po, am, al, rl)
  \/ \E i \in Ids, alive \in BOOLEAN : ProbeDone(i, alive)
  \/ \E i \in Ids, np \in BOOLEAN, am \in AccessModes, md \in MaxDownloadInputs :
        ExposeFiles(i, np, am, md)
  \/ \E i \in Ids, ok \in BOOLEAN : SummarizeDone(i, ok)
  \/ \E i \in Ids, ok \in BOOLEAN : CopyDone(i, ok)
  \/ \E i \in Ids, ok \in BOOLEAN : FileServerDone(i, ok)
  \/ \E i \in Ids, ok \in BOOLEAN : ProxyDone(i, ok)
  \/ \E i \in Ids : TunnelUrl(i)
  \/ \E i \in Ids, how \in {"exit", "timeout", "spawn error"} : TunnelFail(i, how)
  \/ \E i \in Ids : PersistDone(i)
  \/ \E i \in Ids : Tick(i)
  \/ \E i \in Ids : ChildExit(i)
  \/ \E i \in Ids : StrayExit(i)
  \/ \E i \in Ids : TtlFire(i)
  \/ Reap
  \/ \E i \in Ids : UserStop(i)
  \/ \E i \in Ids : Download(i)
  \/ \E i \in Ids, ok \in BOOLEAN : StreamEnd(i, ok)
  \/ \E i \in Ids, src \in Srcs : StopStep(i, src)
  \/ \E i \in Ids : ReapNext(i)

Spec == Init /\ [][Next]_vars

\* the scheduling of the event loop: suspended calls resume, I/O settles, armed
\* timers fire once due (also when other callers keep stopping), a signalled
\* child exits.  New requests, user stops and a child's own crash are not forced.
Fairness ==
  /\ \A i \in Ids, src \in Srcs : WF_vars(StopStep(i, src))
  /\ \A i \in Ids : WF_vars(Tick(i)) /\ SF_vars(TtlFire(i)) /\ WF_vars(ReapNext(i))
  /\ SF_vars(Reap)
  /\ \A i \in Ids : WF_vars(killed[i] /\ ChildExit(i)) /\ WF_vars(StrayExit(i))
  /\ \A i \in Ids : WF_vars(\E ok \in BOOLEAN : ProbeDone(i, ok))
  /\ \A i \in Ids : WF_vars(\E ok \in BOOLEAN : SummarizeDone(i, ok))
  /\ \A i \in Ids : WF_vars(\E ok \in BOOLEAN : CopyDone(i, ok))
  /\ \A i \in Ids : WF_vars(\E ok \in BOOLEAN : FileServerDone(i, ok))
  /\ \A i \in Ids : WF_vars(\E ok \in BOOLEAN : ProxyDone(i, ok))
  /\ \A i \in Ids : WF_vars(TunnelUrl(i) \/ \E how \in {"exit", "timeout", "spawn error"} : TunnelFail(i, how))
  /\ \A i \in Ids : WF_vars(PersistDone(i))
  /\ \A i \in Ids : SF_vars(\E ok \in BOOLEAN : StreamEnd(i, ok))

FairSpec == Init /\ [][Next]_vars /\ Fairness

\* ------------------------------------------------------------------------
\* Properties.

\* the session holds none of: a live tunnel child, a listening proxy or origin
\* server, a workspace directory, an armed TTL timer
Released(i) ==
  /\ child[i] # "alive" /\ proxy[i] # "listening" /\ origin[i] # "listening"
  /\ ~ws[i] /\ timer[i] # "armed"

EventsOf(i, kinds) == {k \in 1..Len(audit) : audit[k].id = i /\ audit[k].event \in kinds}

StopEvents == {"exposure_stopped", "exposure_expired"}

\* C1: whatever the interleaving of the stopExposure(id) calls of the TTL timer,
\* the reaper, a user stop and the max-downloads check, one call performs the
\* terminal transition: an id is listed in `stopped` by at most one call.
C1_OneTerminalTransition ==
  \A i \in Ids : Cardinality(stoppedBy[i] \cap {"ttl", "reaper", "user", "maxdl"}) <= 1

\* C2: in every reachable state a session whose status is stopped, expired or
\* error holds no resources (child exited, servers closed, workspace removed,
\* TTL timer cleared).
C2_TerminalHoldsNothing == \A i \in Ids : status[i] \in Terminal => Released(i)

\* C3: the status of a session is one of starting, running, stopped, error,
\* expired, and a status of stopped, error or expired never changes again.
C3_StatusOneWay ==
  /\ [](\A i \in Ids : status[i] \in Statuses \cup {"none"})
  /\ [][\A i \in Ids : status[i] \in Terminal => status'[i] = status[i]]_vars

\* C4: once a session with an exposure_started event has left running and been
\* removed from the table, the audit log holds exactly one exposure_stopped or
\* exposure_expired event of its id.
C4_OneStopEventPerStart ==
  \A i \in Ids :
    (EventsOf(i, {"exposure_started"}) # {} /\ i \notin tab /\ status[i] # "running")
      => Cardinality(EventsOf(i, StopEvents)) = 1

\* C5: every session that reaches running is eventually removed from the table
\* with its resources released, with or without a user stop (timers fire).
C5_RunningEventuallyReleased ==
  \A i \in Ids : [](status[i] = "running" => <>(i \notin tab /\ Released(i)))

\* C6: the terminal transition of a stop issued by the TTL timer or the reaper
\* sets status expired and appends exposure_expired; that of a user stop or of
\* the max-downloads check sets status stopped and appends exposure_stopped; in
\* both cases the workspace directory is gone at the transition.
C6_ReasonDecidesOutcome ==
  [][\A i \in Ids, src \in {"ttl", "reaper", "user", "maxdl"} :
       (calls[i][src].pc # "audit" /\ calls'[i][src].pc = "audit")
         => LET exp == src \in {"ttl", "reaper"} IN
            /\ status'[i] = IF exp THEN "expired" ELSE "stopped"
            /\ audit' = Append(audit, [event |-> IF exp THEN "exposure_expired"
                                                 ELSE "exposure_stopped", id |-> i])
            /\ ~ws'[i]]_vars

\* C6 witness: the reaper has expired a files session whose workspace existed
C6_Witness ==
  \E i \in Ids :
    /\ calls[i]["reaper"].pc = "audit" /\ stype[i] = "files" /\ status[i] = "expired"
    /\ audit[Len(audit)] = [event |-> "exposure_expired", id |-> i]

\* C7: stats.downloads never decreases and, when maxDownloads is set, never
\* exceeds it by more than one.
C7_DownloadsBounded ==
  /\ [][\A i \in Ids : dl'[i] >= dl[i]]_vars
  /\ [](\A i \in Ids : maxDl[i] # 0 => dl[i] <= maxDl[i] + 1)

\* C8: whenever a download response makes downloads >= maxDownloads, a stop for
\* max_downloads_reached follows and the session leaves running, whether the
\* body was sent completely or the stream failed: once every response has
\* ended and no such stop is in flight, the session is not running.
C8_QuotaStopsSession ==
  \A i \in Ids :
    (maxDl[i] # 0 /\ dl[i] >= maxDl[i] /\ streams[i] = 0 /\ calls[i]["maxdl"].pc = "idle")
      => status[i] # "running"

\* C9: when expose_port / expose_files has thrown after the insertion of the
\* session (input copy, file server, proxy or tunnel failed), the session is not
\* in the table, its proxy and origin servers are closed, its workspace is
\* removed and no TTL timer is armed.
C9_FailedBringUpLeavesNothing ==
  \A i \in Ids :
    (up[i].pc = "threw" /\ up[i].err \in {"copy", "file server", "proxy", "tunnel"})
      => /\ i \notin tab
         /\ proxy[i] # "listening" /\ origin[i] # "listening"
         /\ ~ws[i] /\ timer[i] # "armed"

\* the ports expose_port accepts: integer part within [1, 65535], not blocked
PortInRange(p) == p # NotANumber /\ p >= 10 * MinPort /\ p < 10 * (MaxPort + 1)
PortBlocked(p) == \E b \in BlockedPorts : p >= 10 * b /\ p < 10 * (b + 1)

\* C10: expose_port throws "invalid port" for a port that truncates outside
\* [1, 65535], "port blocked by policy" for a blocked port and "local service is
\* not reachable" for an unreachable one, goes on for every other port, and a
\* rejected call leaves the session table, the snapshot and the audit log as
\* they were.
C10_RejectedPortNoEffect ==
  [][\A i \in Ids :
       /\ (up[i].pc = "idle" /\ up'[i].pc = "probe")
            => PortInRange(up'[i].port) /\ ~PortBlocked(up'[i].port)
       /\ (up[i].pc = "idle" /\ up'[i].pc = "threw" /\ up'[i].err # "paths is required")
            => /\ IF PortInRange(up'[i].port) THEN PortBlocked(up'[i].port)
                                                  /\ up'[i].err = "port blocked by policy"
                  ELSE up'[i].err = "invalid port"
               /\ tab' = tab /\ snap' = snap /\ audit' = audit /\ status' = status
       /\ (up[i].pc = "probe" /\ up'[i].pc = "threw")
            => /\ up'[i].err = "local service is not reachable"
               /\ tab' = tab /\ snap' = snap /\ audit' = audit /\ status' = status]_vars

\* C10 witness: port 22 was rejected as blocked
C10_Witness ==
  \E i \in Ids : up[i].pc = "threw" /\ up[i].err = "port blocked by policy"
                 /\ up[i].port = 220 /\ i \notin tab /\ audit = <<>>

\* ------------------------------------------------------------------------
\* stopExposure(idOrIds) on its own: one call at a time, with several ids, the
\* sentinel "all", and a file system whose operations may fail.

MaxReqLen == 2          \* ids in one request

SIds == {"a", "b"}

\* the items of a request: ids of sessions, an id of no session, the sentinel,
\* an id with white space around it, an empty string
RawIds == {"a", "b", "ghost", "all", " a", ""}

\* String.prototype.trim
Trim(x) == IF x = " a" THEN "a" ELSE x

Range(q) == {q[k] : k \in 1..Len(q)}

RECURSIVE NormalizeFrom(_, _)
NormalizeFrom(raw, out) ==
  IF raw = <<>> THEN out
  ELSE LET id == Trim(Head(raw)) IN
       NormalizeFrom(Tail(raw), IF id = "" \/ id \in Range(out) THEN out ELSE Append(out, id))

\* normalizeRequestedIds: trimmed, non-empty, first occurrences in order
NormalizeRequestedIds(raw) == NormalizeFrom(raw, <<>>)

Requests == UNION {[1..n -> RawIds] : n \in 0..MaxReqLen}

\* this.sessions.keys(): the ids in insertion order
Orders == {<<>>, <<"a">>, <<"b">>, <<"a", "b">>, <<"b", "a">>}

NoResult == [stopped |-> <<>>, failed |-> <<>>, cleaned |-> <<>>]

\* the calls made: exposure_stop with a request (opts.expired unset), the TTL
\* timer and the reaper with one id and opts.expired
StopInputs ==
  {[raw |-> r, expired |-> FALSE] : r \in Requests}
    \cup {[raw |-> <<i>>, expired |-> TRUE] : i \in SIds}

\* history: `had`, the ids in the table when the call was made, and `removed`,
\* the workspace directories the call has removed from the disk
IdleStopCall ==
  [pc |-> "idle", raw |-> <<>>, expired |-> FALSE, todo |-> <<>>, res |-> NoResult,
   had |-> {}, removed |-> {}]

\* the sessions of the table are running; a files session has a workspaceDir,
\* which may be missing on disk; faults: fs.rm throws for the ids of rmFails,
\* appendFile of the audit file fails, writeFile of the snapshot fails
StopInit ==
  /\ LifeInit /\ ProxyUnused /\ LogUnused /\ CreationUnused /\ PartsUnused
  /\ \E order \in Orders, files \in SUBSET SIds, gone \in SUBSET SIds,
        rmFails \in SUBSET SIds, auditFails \in BOOLEAN, snapFails \in BOOLEAN :
       /\ files \subseteq Range(order) /\ gone \subseteq files /\ rmFails \subseteq files \ gone
       /\ mgr = [sessions |-> order,
                 status |-> [i \in SIds |-> IF i \in Range(order) THEN "running" ELSE "none"],
                 timer |-> [i \in SIds |-> i \in Range(order)],
                 dir |-> [i \in SIds |-> i \in files],
                 onDisk |-> [i \in SIds |-> i \in files \ gone],
                 audit |-> <<>>,
                 snap |-> order,
                 rmFails |-> rmFails, auditFails |-> auditFails, snapFails |-> snapFails]
  /\ stopCall = IdleStopCall

\* mutant: the entry stays in the table
KeepEntry(q, x) == q

\* this.sessions.delete(id)
Without(q, x) == SelectSeq(q, LAMBDA y : y # x)

\* writeAudit: a failed append is logged and swallowed
WriteAuditFile(m, ev, i) ==
  IF m.auditFails THEN m ELSE [m EXCEPT !.audit = Append(@, [event |-> ev, id |-> i])]

\* mutant: ids that are not in the table are dropped, not reported
LookupDroppingMissing(m, requested) ==
  IF "all" \in Range(requested)
  THEN [ids |-> m.sessions,
        failed |-> IF m.sessions = <<>> THEN <<[id |-> "all", error |-> "not_found"]>> ELSE <<>>,
        done |-> m.sessions = <<>>]
  ELSE [ids |-> SelectSeq(requested, LAMBDA i : i \in Range(m.sessions)),
        failed |-> <<>>, done |-> FALSE]

\* the lookup of the requested ids (this.sessions.has), or the expansion of "all"
Lookup(m, requested) ==
  IF "all" \in Range(requested)
  THEN [ids |-> m.sessions,
        failed |-> IF m.sessions = <<>> THEN <<[id |-> "all", error |-> "not_found"]>> ELSE <<>>,
        done |-> m.sessions = <<>>]
  ELSE [ids |-> SelectSeq(requested, LAMBDA i : i \in Range(m.sessions)),
        failed |-> [k \in 1..Len(SelectSeq(requested, LAMBDA i : i \notin Range(m.sessions))) |->
                      [id |-> SelectSeq(requested, LAMBDA i : i \notin Range(m.sessions))[k],
                       error |-> "not_found"]],
        done |-> FALSE]

\* stopExposure up to its loop
StopCallBegin(raw, expired) ==
  /\ stopCall.pc \in {"idle", "returned"}
  /\ LET requested == NormalizeRequestedIds(raw)
         look == Lookup(mgr, requested)
         stopIds == NormalizeRequestedIds(look.ids)
         c == [stopCall EXCEPT !.raw = raw, !.expired = expired, !.removed = {},
                               !.had = Range(mgr.sessions)]
     IN stopCall' =
          IF requested = <<>>
          THEN [c EXCEPT !.pc = "returned", !.todo = <<>>,
                         !.res = [NoResult EXCEPT
                                    !.failed = <<[id |-> "unknown", error |-> "id or ids is required"]>>]]
          ELSE IF look.done \/ stopIds = <<>>
          THEN [c EXCEPT !.pc = "returned", !.todo = <<>>,
                         !.res = [NoResult EXCEPT !.failed = look.failed]]
          ELSE [c EXCEPT !.pc = "loop", !.todo = stopIds,
                         !.res = [NoResult EXCEPT !.failed = look.failed]]
  /\ UNCHANGED <<mgr, NotStopVars>>

\* mutant: the status changes and the audit event is written before the cleanup
StopCallOneTransitionFirst ==
  /\ stopCall.pc = "loop" /\ stopCall.todo # <<>>
  /\ LET i == Head(stopCall.todo)
         c == [stopCall EXCEPT !.todo = Tail(@)]
         m1 == [mgr EXCEPT !.timer[i] = FALSE]
         rm == m1.dir[i] /\ m1.onDisk[i]
         gone == WriteAuditFile(
                   [m1 EXCEPT !.sessions = Without(@, i),
                              !.status[i] = IF c.expired THEN "expired" ELSE "stopped"],
                   IF c.expired THEN "exposure_expired" ELSE "exposure_stopped", i)
     IN IF i \notin Range(mgr.sessions)
        THEN /\ stopCall' = [c EXCEPT !.res.failed = Append(@, [id |-> i, error |-> "not_found"])]
             /\ mgr' = mgr
        ELSE IF rm /\ i \in m1.rmFails
        THEN /\ stopCall' = [c EXCEPT !.res.failed = Append(@, [id |-> i, error |-> "rm"])]
             /\ mgr' = gone
        ELSE /\ stopCall' =
                  [c EXCEPT !.res.stopped = Append(@, i),
                            !.res.cleaned = IF rm THEN Append(@, i) ELSE @,
                            !.removed = IF rm THEN @ \cup {i} ELSE @]
             /\ mgr' = [gone EXCEPT !.onDisk[i] = FALSE]
  /\ UNCHANGED NotStopVars

\* one iteration of the loop: the cleanup, the transition and the audit event of
\* one id, the catch and the finally
StopCallOne ==
  /\ stopCall.pc = "loop" /\ stopCall.todo # <<>>
  /\ LET i == Head(stopCall.todo)
         c == [stopCall EXCEPT !.todo = Tail(@)]
         m1 == [mgr EXCEPT !.timer[i] = FALSE]
         rm == m1.dir[i] /\ m1.onDisk[i]
         gone == [m1 EXCEPT !.sessions = Without(@, i)]
     IN IF i \notin Range(mgr.sessions)
        THEN /\ stopCall' = [c EXCEPT !.res.failed = Append(@, [id |-> i, error |-> "not_found"])]
             /\ mgr' = mgr
        ELSE IF rm /\ i \in m1.rmFails
        THEN /\ stopCall' = [c EXCEPT !.res.failed = Append(@, [id |-> i, error |-> "rm"])]
             /\ mgr' = gone
        ELSE /\ stopCall' =
                  [c EXCEPT !.res.stopped = Append(@, i),
                            !.res.cleaned = IF rm THEN Append(@, i) ELSE @,
                            !.removed = IF rm THEN @ \cup {i} ELSE @]
             /\ mgr' = WriteAuditFile(
                         [gone EXCEPT !.onDisk[i] = FALSE,
                                      !.status[i] = IF c.expired THEN "expired" ELSE "stopped"],
                         IF c.expired THEN "exposure_expired" ELSE "exposure_stopped", i)
  /\ UNCHANGED NotStopVars

\* persistSessionsSnapshot and the return; a failed write rejects the call
StopCallReturn ==
  /\ stopCall.pc = "loop" /\ stopCall.todo = <<>>
  /\ IF mgr.snapFails
     THEN /\ stopCall' = [stopCall EXCEPT !.pc = "threw"]
          /\ mgr' = mgr
     ELSE /\ stopCall' = [stopCall EXCEPT !.pc = "returned"]
          /\ mgr' = [mgr EXCEPT !.snap = mgr.sessions]
  /\ UNCHANGED NotStopVars

StopNext ==
  \/ \E inp \in StopInputs : StopCallBegin(inp.raw, inp.expired)
  \/ StopCallOne
  \/ StopCallReturn

SpecStop == StopInit /\ [][StopNext]_vars

\* what a returned stopExposure call reports
Requested == Range(NormalizeRequestedIds(stopCall.raw))
StoppedIds == Range(stopCall.res.stopped)
FailedIds == {f.id : f \in Range(stopCall.res.failed)}
NotFound(i) == [id |-> i, error |-> "not_found"]
NoFsFault == mgr.rmFails = {} /\ ~mgr.auditFails /\ ~mgr.snapFails

\* C11 (as claimed): when stopExposure(idOrIds) returns, every distinct requested
\* id is in exactly one of stopped and failed: failed with not_found if it was
\* not in the table, stopped if it was; "all" stands for every id of the table
\* (failed [{all, not_found}] for an empty table); cleaned lists exactly the
\* workspace directories removed.  Stated for runs in which no file operation
\* fails.
C11_EveryRequestedIdReported ==
  (stopCall.pc = "returned" /\ NoFsFault) =>
    /\ \A i \in Requested \ {"all"} :
         /\ (i \in StoppedIds) # (i \in FailedIds)
         /\ i \notin stopCall.had => NotFound(i) \in Range(stopCall.res.failed)
         /\ i \in stopCall.had => i \in StoppedIds
    /\ "all" \in Requested =>
         IF stopCall.had = {} THEN stopCall.res = [NoResult EXCEPT !.failed = <<NotFound("all")>>]
         ELSE stopCall.had \subseteq StoppedIds
    /\ Range(stopCall.res.cleaned) = stopCall.removed

\* the ids a call processes: those of the table for a request with "all" in it
\* (the other ids of the request are ignored), the requested ids otherwise
Asked == IF "all" \in Requested THEN stopCall.had ELSE Requested

\* C11 (amended): when stopExposure returns, every id it processes is in exactly
\* one of stopped and failed, and no other id is reported: failed with not_found
\* if it was not in the table; if it was, stopped, or failed with the error of
\* the cleanup step that threw.  A request with "all" processes the ids of the
\* table and nothing else (failed [{all, not_found}] for an empty table).
\* cleaned lists exactly the workspace directories removed.
C11_EveryProcessedIdReported ==
  stopCall.pc = "returned" =>
    /\ \A i \in Asked :
         /\ (i \in StoppedIds) # (i \in FailedIds)
         /\ i \notin stopCall.had => NotFound(i) \in Range(stopCall.res.failed)
         /\ i \in stopCall.had =>
              \/ i \in StoppedIds
              \/ i \in mgr.rmFails /\ [id |-> i, error |-> "rm"] \in Range(stopCall.res.failed)
    /\ Len(stopCall.res.stopped) = Cardinality(StoppedIds)
    /\ Len(stopCall.res.failed) = Cardinality(FailedIds)
    /\ IF Requested = {} THEN FailedIds = {"unknown"} /\ StoppedIds = {}
       ELSE IF "all" \in Requested /\ stopCall.had = {}
       THEN stopCall.res = [NoResult EXCEPT !.failed = <<NotFound("all")>>]
       ELSE StoppedIds \cup FailedIds = Asked
    /\ Range(stopCall.res.cleaned) = stopCall.removed

\* C11 witness: "all" together with an id of no session, in a table of two
\* sessions, one of them with a workspace on disk
C11_Witness ==
  /\ stopCall.pc = "returned" /\ Requested = {"all", "ghost"}
  /\ stopCall.had = SIds /\ StoppedIds = SIds /\ FailedIds = {}
  /\ Cardinality(stopCall.removed) = 1

\* C12: a stop of an id that follows a stop of the same id, whose session was
\* in the table: the first call lists the id in stopped (unless its cleanup
\* threw), the second returns failed [{id, not_found}] and nothing else, and
\* changes neither the audit log nor any session nor the table.
C12_SecondStopNotFound ==
  [][\A i \in SIds :
       (/\ stopCall.pc = "returned" /\ i \in stopCall.had
        /\ NormalizeRequestedIds(stopCall.raw) = <<i>>
        /\ NormalizeRequestedIds(stopCall'.raw) = <<i>>)
         => /\ i \notin mgr.rmFails => stopCall.res.stopped = <<i>>
            /\ stopCall'.pc = "returned"
            /\ stopCall'.res = [NoResult EXCEPT !.failed = <<NotFound(i)>>]
            /\ mgr' = mgr]_vars

\* C12 witness: "a" was stopped and a further stop of "a" has returned not_found,
\* with the session "b" still in the table
C12_Witness ==
  /\ stopCall.pc = "returned" /\ NormalizeRequestedIds(stopCall.raw) = <<"a">>
  /\ stopCall.res = [NoResult EXCEPT !.failed = <<NotFound("a")>>]
  /\ mgr.status["a"] = "stopped" /\ mgr.audit = <<[event |-> "exposure_stopped", id |-> "a"]>>
  /\ mgr.sessions = <<"b">>

\* exposureList: a record for every entry of this.sessions
ExposureList(m) == {[id |-> i, status |-> m.status[i]] : i \in Range(m.sessions)}

\* exposureGet with one id
ExposureGet(m, i) ==
  IF i \in Range(m.sessions) THEN [id |-> i, status |-> m.status[i]]
  ELSE [id |-> i, status |-> "not_found"]

\* C13: a session that a returned stop has stopped or expired is still listed
\* by exposure_list, and returned by exposure_get, with status stopped or
\* expired.
C13_StoppedSessionsListed ==
  stopCall.pc = "returned" =>
    \A i \in StoppedIds :
      /\ \E r \in ExposureList(mgr) : r.id = i /\ r.status \in {"stopped", "expired"}
      /\ ExposureGet(mgr, i).status \in {"stopped", "expired"}

\* ------------------------------------------------------------------------
\* buildRateLimiter on its own: the closure called with a client ip at a time.

MaxTime == 4            \* Date.now() stays within 0..MaxTime
MaxDecisions == 4       \* requests decided by the limiter

Ips == {"x", "y"}
Times == 0..MaxTime

\* policy.rateLimit as mergePolicy leaves it: windowMs and maxRequests >= 1
RateLimitPolicies ==
  {[enabled |-> en, windowMs |-> 2, maxRequests |-> mr] : en \in BOOLEAN, mr \in {1, 2}}

\* state.get(ip) of an ip not in the Map
NoRow == [windowStart |-> -1, count |-> 0]

NewLimiter(policy) == [policy |-> policy, state |-> [ip \in Ips |-> NoRow]]

\* mutant: a full window admits one request more
AllowRequestOffByOne(lim, ip, now) ==
  LET row == lim.state[ip] IN
  IF ~lim.policy.enabled THEN [ok |-> TRUE, lim |-> lim]
  ELSE IF row = NoRow \/ now - row.windowStart >= lim.policy.windowMs
  THEN [ok |-> TRUE, lim |-> [lim EXCEPT !.state[ip] = [windowStart |-> now, count |-> 1]]]
  ELSE IF row.count > lim.policy.maxRequests THEN [ok |-> FALSE, lim |-> lim]
  ELSE [ok |-> TRUE, lim |-> [lim EXCEPT !.state[ip].count = @ + 1]]

\* the function buildRateLimiter returns: the decision and the closure's state
AllowRequest(lim, ip, now) ==
  LET row == lim.state[ip] IN
  IF ~lim.policy.enabled THEN [ok |-> TRUE, lim |-> lim]
  ELSE IF row = NoRow \/ now - row.windowStart >= lim.policy.windowMs
  THEN [ok |-> TRUE, lim |-> [lim EXCEPT !.state[ip] = [windowStart |-> now, count |-> 1]]]
  ELSE IF row.count >= lim.policy.maxRequests THEN [ok |-> FALSE, lim |-> lim]
  ELSE [ok |-> TRUE, lim |-> [lim EXCEPT !.state[ip].count = @ + 1]]

RateInit ==
  /\ LifeInit /\ StopUnused /\ LogUnused /\ CreationUnused /\ PartsUnused
  /\ psession = Unused /\ preq = Unused
  /\ \E policy \in RateLimitPolicies : limiter = NewLimiter(policy)
  /\ rlLog = <<>>

\* the time of the latest decision (the clock does not run backwards)
LastTime == IF rlLog = <<>> THEN 0 ELSE rlLog[Len(rlLog)].t

\* a request of client ip arrives at time now
RateRequest(ip, now) ==
  /\ Len(rlLog) < MaxDecisions /\ now >= LastTime
  /\ limiter' = AllowRequest(limiter, ip, now).lim
  /\ rlLog' = Append(rlLog, [ip |-> ip, t |-> now, ok |-> AllowRequest(limiter, ip, now).ok])
  /\ UNCHANGED <<psession, preq, NotProxyVars>>

RateNext == \E ip \in Ips, now \in Times : RateRequest(ip, now)

SpecRate == RateInit /\ [][RateNext]_vars

MaxProxyRequests == 2   \* requests the proxy counts in one run

\* request targets as the segments after the leading slash: "/" is <<>>,
\* "/ok" is <<"ok">>, "//" is <<"", "">>
Targets == {<<>>, <<"ok">>, <<"ok", "x">>, <<"okay">>, <<"", "">>}

\* new URL(req.url, "http://127.0.0.1"): a target that begins with "//" names
\* a host, and the parser throws on an empty one
NewUrlThrows(target) == Len(target) >= 2 /\ target[1] = "" /\ target[2] = ""

\* session.access.allowlistPaths: empty, or the one prefix "/ok"
Allowlists == {<<>>, << <<"ok">> >>}

IsPrefix(pre, path) ==
  Len(pre) <= Len(path) /\ \A k \in 1..Len(pre) : pre[k] = path[k]

\* shouldAllowPath: no list, the prefix "/", the prefix itself, or below it
ShouldAllowPath(pathname, allowlist) ==
  \/ allowlist = <<>>
  \/ \E k \in 1..Len(allowlist) :
       allowlist[k] = <<>> \/ pathname = allowlist[k] \/ IsPrefix(allowlist[k], pathname)

\* the credentials of the session (makeAccessState) and of requests; "none"
\* is an absent parameter or header, " T" the token with white space before it
Token == "T"
Username == "cfshare"
Password == "P"
NoCred == [query |-> "none", xtoken |-> "none", auth |-> <<"none">>]
Creds ==
  {NoCred}
    \cup {[NoCred EXCEPT !.query = q] : q \in {"T", " T", "X", ""}}
    \cup {[NoCred EXCEPT !.xtoken = x] : x \in {"T", "X"}}
    \cup {[NoCred EXCEPT !.auth = a] :
            a \in {<<"Bearer", "T">>, <<"Bearer", "X">>, <<"Bearer", "">>,
                   <<"Basic", "cfshare", "P">>, <<"Basic", "cfshare", "X">>,
                   <<"Basic", "root", "P">>, <<"Basic", "nocolon">>}}
    \cup {[query |-> "X", xtoken |-> "T", auth |-> <<"Basic", "cfshare", "P">>]}

\* ensureString: undefined unless a string that is non-empty once trimmed
EnsureString(v) == IF v \in {"none", ""} THEN "none" ELSE IF v = " T" THEN "T" ELSE v

\* parseBearerToken
ParseBearerToken(auth) ==
  IF auth[1] = "Bearer" THEN EnsureString(auth[2]) ELSE "none"

\* parseBasicAuth: null without the scheme or without a colon
ParseBasicAuth(auth) ==
  IF auth[1] = "Basic" /\ Len(auth) = 3 THEN [username |-> auth[2], password |-> auth[3]]
  ELSE [username |-> "none", password |-> "none"]

AccessStates ==
  {[mode |-> m, protectOrigin |-> po, allowlistPaths |-> al] :
     m \in AccessModes, po \in BOOLEAN, al \in Allowlists}

\* mutant: the token mode accepts any Bearer token
IsAuthorizedAnyBearer(cred, access) ==
  IF ~access.protectOrigin \/ access.mode = "none" THEN TRUE
  ELSE IF access.mode = "token"
  THEN \/ EnsureString(cred.query) = Token
       \/ EnsureString(cred.xtoken) = Token
       \/ ParseBearerToken(cred.auth) # "none"
  ELSE /\ ParseBasicAuth(cred.auth).username = Username
       /\ ParseBasicAuth(cred.auth).password = Password

\* isAuthorized
IsAuthorized(cred, access) ==
  IF ~access.protectOrigin \/ access.mode = "none" THEN TRUE
  ELSE IF access.mode = "token"
  THEN \/ EnsureString(cred.query) = Token
       \/ EnsureString(cred.xtoken) = Token
       \/ ParseBearerToken(cred.auth) = Token
  ELSE /\ ParseBasicAuth(cred.auth).username = Username
       /\ ParseBasicAuth(cred.auth).password = Password

\* the response: heads counts the calls of res.writeHead
NoResponse ==
  [heads |-> 0, status |-> 0, body |-> "none", wwwAuthenticate |-> FALSE, ended |-> FALSE]

Respond(code, body, www) ==
  [heads |-> 1, status |-> code, body |-> body, wwwAuthenticate |-> www, ended |-> TRUE]

\* upstreamError: the upstream request has emitted "error"
NoRequest ==
  [pc |-> "none", ip |-> "none", t |-> 0, target |-> <<>>, cred |-> NoCred, res |-> NoResponse,
   upstreamError |-> FALSE]

ProxyTimes == {0, 2}

ProxyInit ==
  /\ LifeInit /\ StopUnused /\ LogUnused /\ CreationUnused /\ PartsUnused
  /\ \E policy \in RateLimitPolicies : limiter = NewLimiter(policy)
  /\ rlLog = <<>>
  /\ \E access \in AccessStates : psession = [access |-> access, requests |-> 0]
  /\ preq = NoRequest

\* the handler after the rate-limit check: path allow-list, authorization,
\* then the upstream request
HandleAllowed(sess, cred, pathname) ==
  IF ~ShouldAllowPath(pathname, sess.access.allowlistPaths)
  THEN [pc |-> "done", res |-> Respond(403, "path_not_allowed", FALSE)]
  ELSE IF ~IsAuthorized(cred, sess.access)
  THEN [pc |-> "done", res |-> Respond(401, "unauthorized", sess.access.mode = "basic")]
  ELSE [pc |-> "forwarded", res |-> NoResponse]

\* the request listener, from new URL to its return.  When new URL throws, the
\* listener is left by the exception before the request is counted.
ProxyRequest(ip, now, target, cred) ==
  /\ preq.pc \in {"none", "done"} /\ psession.requests < MaxProxyRequests
  /\ LET r == [NoRequest EXCEPT !.ip = ip, !.t = now, !.target = target, !.cred = cred]
         rl == AllowRequest(limiter, ip, now)
         h == HandleAllowed(psession, cred, target)
     IN IF NewUrlThrows(target)
        THEN /\ preq' = [r EXCEPT !.pc = "threw"]
             /\ UNCHANGED <<limiter, psession>>
        ELSE /\ psession' = [psession EXCEPT !.requests = @ + 1]
             /\ limiter' = rl.lim
             /\ preq' = IF ~rl.ok
                        THEN [r EXCEPT !.pc = "done", !.res = Respond(429, "rate_limited", FALSE)]
                        ELSE [r EXCEPT !.pc = h.pc, !.res = h.res]
  /\ UNCHANGED <<rlLog, NotProxyVars>>

\* the upstream answers: res.writeHead(proxyRes.statusCode), proxyRes.pipe(res)
UpstreamResponse(code) ==
  /\ preq.pc = "forwarded"
  /\ preq' = [preq EXCEPT !.pc = "streaming", !.res.heads = @ + 1, !.res.status = code]
  /\ UNCHANGED <<limiter, rlLog, psession, NotProxyVars>>

\* the upstream body ends: the pipe ends the response
UpstreamEnd ==
  /\ preq.pc = "streaming"
  /\ preq' = [preq EXCEPT !.pc = "done", !.res.ended = TRUE]
  /\ UNCHANGED <<limiter, rlLog, psession, NotProxyVars>>

\* mutant: the error listener answers 502 whether or not headers were sent
OnProxyErrorAlways502(res) ==
  [res EXCEPT !.heads = @ + 1, !.status = 502, !.body = "proxy_error", !.ended = TRUE]

\* proxyReq.on("error"): 502 unless res.headersSent, else res.end()
OnProxyError(res) ==
  IF res.heads = 0
  THEN [res EXCEPT !.heads = 1, !.status = 502, !.body = "proxy_error", !.ended = TRUE]
  ELSE [res EXCEPT !.ended = TRUE]

\* the upstream request fails: before the response, or while its body is piped
UpstreamError ==
  /\ preq.pc \in {"forwarded", "streaming"}
  /\ preq' = [preq EXCEPT !.pc = "done", !.res = OnProxyError(preq.res), !.upstreamError = TRUE]
  /\ UNCHANGED <<limiter, rlLog, psession, NotProxyVars>>

ProxyNext ==
  \/ \E ip \in {"x"}, now \in ProxyTimes, target \in Targets, cred \in Creds :
        ProxyRequest(ip, now, target, cred)
  \/ \E code \in {200, 404} : UpstreamResponse(code)
  \/ UpstreamEnd
  \/ UpstreamError

SpecProxy == ProxyInit /\ [][ProxyNext]_vars

\* a step of the request listener: a request has arrived
Arrives == preq.pc \in {"none", "done"} /\ (preq' # preq \/ psession' # psession)

\* C15: the proxy handles each request in the order: count it in
\* stats.requests, rate-limit check (429), path allow-list check (403),
\* authorization check (401), forward; it forwards only if the three checks
\* pass, and the first check that fails decides the status.
C15_ProxyCheckOrder ==
  [][Arrives =>
       LET rlOk == AllowRequest(limiter, preq'.ip, preq'.t).ok
           pathOk == ShouldAllowPath(preq'.target, psession.access.allowlistPaths)
           authOk == IsAuthorized(preq'.cred, psession.access)
       IN /\ psession'.requests = psession.requests + 1
          /\ limiter' = AllowRequest(limiter, preq'.ip, preq'.t).lim
          /\ (preq'.pc = "forwarded") = (rlOk /\ pathOk /\ authOk)
          /\ preq'.pc = "forwarded" => preq'.res.heads = 0
          /\ ~rlOk => preq'.pc = "done" /\ preq'.res.status = 429 /\ preq'.res.heads = 1
          /\ (rlOk /\ ~pathOk) => preq'.pc = "done" /\ preq'.res.status = 403 /\ preq'.res.heads = 1
          /\ (rlOk /\ pathOk /\ ~authOk)
               => preq'.pc = "done" /\ preq'.res.status = 401 /\ preq'.res.heads = 1]_vars

\* the request has reached the authorization check of the handler
ReachedAuth ==
  /\ preq.pc \notin {"none", "threw"}
  /\ preq.res.status \notin {429, 403}

\* the 401 answer: {error: "unauthorized"}, WWW-Authenticate in basic mode only
Answers401 ==
  /\ ReachedAuth /\ ~IsAuthorized(preq.cred, psession.access)
       => preq.pc = "done" /\ preq.res.status = 401 /\ preq.res.heads = 1
  /\ preq.res.status = 401
       => /\ preq.res.body = "unauthorized"
          /\ preq.res.wwwAuthenticate = (psession.access.mode = "basic")

BasicMatches(cred) == cred.auth = <<"Basic", Username, Password>>

\* C16 (as claimed): isAuthorized allows a request iff the mode is none, or
\* protectOrigin is false, or (token) the ?token= value, the X-Cfshare-Token
\* header or the Bearer value equals access.token, or (basic) the decoded
\* username and password both equal the session's; otherwise the answer is 401
\* {error: "unauthorized"}, with WWW-Authenticate in basic mode only.
C16_AuthorizedIffCredentialEqual ==
  preq.pc \notin {"none", "threw"} =>
    /\ IsAuthorized(preq.cred, psession.access) =
         (\/ psession.access.mode = "none"
          \/ ~psession.access.protectOrigin
          \/ /\ psession.access.mode = "token"
             /\ \/ preq.cred.query = Token
                \/ preq.cred.xtoken = Token
                \/ preq.cred.auth = <<"Bearer", Token>>
          \/ psession.access.mode = "basic" /\ BasicMatches(preq.cred))
    /\ Answers401

\* C16 (amended): as claimed, with the token values compared after white space
\* around them has been trimmed: " T" is accepted for the token "T".
C16_AuthorizedIffTrimmedCredentialEqual ==
  preq.pc \notin {"none", "threw"} =>
    /\ IsAuthorized(preq.cred, psession.access) =
         (\/ psession.access.mode = "none"
          \/ ~psession.access.protectOrigin
          \/ /\ psession.access.mode = "token"
             /\ \/ preq.cred.query \in {Token, " T"}
                \/ preq.cred.xtoken \in {Token, " T"}
                \/ preq.cred.auth \in {<<"Bearer", Token>>, <<"Bearer", " T">>}
          \/ psession.access.mode = "basic" /\ BasicMatches(preq.cred))
    /\ Answers401

\* C16 witness: in token mode a request whose only credential is a wrong
\* Bearer token was answered 401 without WWW-Authenticate
C16_Witness ==
  /\ psession.access.mode = "token" /\ psession.access.protectOrigin
  /\ preq.cred = [NoCred EXCEPT !.auth = <<"Bearer", "X">>]
  /\ preq.pc = "done" /\ preq.res.status = 401 /\ ~preq.res.wwwAuthenticate

\* C18: the status line and headers of a proxied request are written at most
\* once, and exactly once when the exchange has ended; an upstream error before
\* the headers yields 502 {error: "proxy_error"}; one after the headers only ends
\* the response and leaves the status as written.
C18_HeadersWrittenOnce ==
  /\ [](preq.pc \notin {"none", "threw"} =>
          /\ preq.res.heads <= 1
          /\ preq.pc = "done" => preq.res.heads = 1 /\ preq.res.ended)
  /\ [][(preq.pc \in {"forwarded", "streaming"} /\ preq'.upstreamError) =>
          /\ preq'.res.ended
          /\ IF preq.res.heads = 0
             THEN preq'.res.status = 502 /\ preq'.res.body = "proxy_error" /\ preq'.res.heads = 1
             ELSE preq'.res.status = preq.res.status /\ preq'.res.heads = preq.res.heads]_vars

\* C18 witness: the upstream failed after its 200 status had been written
C18_Witness ==
  /\ preq.pc = "done" /\ preq.upstreamError
  /\ preq.res.status = 200 /\ preq.res.heads = 1 /\ preq.res.ended

\* ---------------------------------------------------------------------------
\* exposePort / exposeFiles from the options to the tunnel target
\* ---------------------------------------------------------------------------

MinTtlSeconds == 60

\* the built-in policy
DefaultPolicy ==
  [defaultTtlSeconds |-> 3600, maxTtlSeconds |-> 86400,
   defaultExposePortAccess |-> "token", defaultExposeFilesAccess |-> "none",
   rateLimitEnabled |-> TRUE]

\* policies as mergePolicy leaves them: 60 <= defaultTtlSeconds <= maxTtlSeconds
CreationPolicies ==
  {DefaultPolicy} \cup
  [defaultTtlSeconds : {61}, maxTtlSeconds : {62},
   defaultExposePortAccess : AccessModes, defaultExposeFilesAccess : {"none", "token"},
   rateLimitEnabled : BOOLEAN]

\* opts.ttl_seconds: absent, not a number, or a number given in half seconds
TtlOptions ==
  {[type |-> "undefined", halves |-> 0], [type |-> "string", halves |-> 0]} \cup
  {[type |-> "number", halves |-> h] :
     h \in {-3, 119, 121, 124, 125, 126, 172802}}

\* Math.trunc of a number of half seconds, in seconds
TruncHalves(h) == IF h >= 0 THEN h \div 2 ELSE -((-h) \div 2)

MathMax(a, b) == IF a >= b THEN a ELSE b
MathMin(a, b) == IF a <= b THEN a ELSE b

NormalizeTtl(value, policy) ==
  LET n == IF value.type = "number" THEN TruncHalves(value.halves)
           ELSE policy.defaultTtlSeconds
  IN MathMax(MinTtlSeconds, MathMin(policy.maxTtlSeconds, n))

\* opts.access as received: absent, a mode, or some other string
AccessOptions == {"undefined", "public"} \cup AccessModes

NormalizeAccessMode(value, fallback) == IF value \in AccessModes THEN value ELSE fallback

\* opts.protect_origin as received
ProtectOptions == {"unset", "true", "false"}

\* opts.allowlist_paths as received; NoList is the absent option
NoList == <<"undefined">>
AllowlistOptions == {NoList, <<>>, <<" ">>, <<"a", "/a">>, <<" /a", "b">>}

\* entry.trim() and the leading "/" that normalizeAllowlistPaths adds
TrimEntry(x) == IF x = " " THEN "" ELSE IF x = " /a" THEN "/a" ELSE x
WithSlash(x) == IF x = "a" THEN "/a" ELSE IF x = "b" THEN "/b" ELSE x

RECURSIVE AllowlistFrom(_, _)
AllowlistFrom(values, out) ==
  IF values = <<>> THEN out
  ELSE LET x == TrimEntry(Head(values)) IN
       AllowlistFrom(Tail(values),
                     IF x = "" \/ WithSlash(x) \in Range(out) THEN out
                     ELSE Append(out, WithSlash(x)))

NormalizeAllowlistPaths(values) == IF values = NoList THEN <<>> ELSE AllowlistFrom(values, <<>>)

\* the options of one call
CreationOptions ==
  [ttl_seconds : TtlOptions, access : AccessOptions, protect_origin : ProtectOptions,
   allowlist_paths : AllowlistOptions]

NoOptions ==
  [ttl_seconds |-> [type |-> "undefined", halves |-> 0], access |-> "undefined",
   protect_origin |-> "unset", allowlist_paths |-> NoList]

\* exposeFiles takes neither protect_origin nor allowlist_paths
FilesOptions == {o \in CreationOptions : o.protect_origin = "unset" /\ o.allowlist_paths = NoList}

\* Date.now() at the computation of expiresAt, and the milliseconds that have
\* passed when nowIso() is read for createdAt; `clock` keeps the last read
ClockReads == {0, 500}
Elapsed == {0, 1}

IdleCreation(pol) ==
  [pc |-> "idle", policy |-> pol, type |-> "none", opts |-> NoOptions, clock |-> 0,
   ttlSeconds |-> 0, expiresAt |-> 0, createdAt |-> 0, accessMode |-> "none", protectOrigin |-> FALSE,
   allowlistPaths |-> <<>>, target |-> "none"]

CreationInit ==
  /\ LifeInit /\ StopUnused /\ ProxyUnused /\ LogUnused /\ PartsUnused
  /\ \E pol \in CreationPolicies : creation = IdleCreation(pol)

\* protectOrigin of exposeFiles, which alone inserts the reverse proxy
NeedProxyFiles(accessMode) == accessMode # "none"

\* exposePort from normalizeTtl to the proxy test: no await in between
CreatePort(opts, now, elapsed) ==
  /\ creation.pc = "idle"
  /\ LET pol == creation.policy
         ttlSeconds == NormalizeTtl(opts.ttl_seconds, pol)
         accessMode == NormalizeAccessMode(opts.access, pol.defaultExposePortAccess)
         allowlistPaths == NormalizeAllowlistPaths(opts.allowlist_paths)
     IN creation' =
          [creation EXCEPT
             !.pc = "targeted", !.type = "port", !.opts = opts,
             !.ttlSeconds = ttlSeconds, !.expiresAt = now + ttlSeconds * 1000,
             !.accessMode = accessMode,
             !.protectOrigin = IF opts.protect_origin = "unset" THEN accessMode # "none"
                               ELSE opts.protect_origin = "true",
             !.clock = now + elapsed, !.createdAt = now + elapsed,
             !.allowlistPaths = allowlistPaths,
             !.target = IF NeedProxyPort(opts.protect_origin, accessMode,
                                         allowlistPaths # <<>>, pol.rateLimitEnabled)
                        THEN "proxy" ELSE "service"]
  /\ UNCHANGED NotCreationVars

\* exposeFiles up to mkdirp(workspaceDir)
CreateFilesBegin(opts, now) ==
  /\ creation.pc = "idle"
  /\ LET pol == creation.policy
         ttlSeconds == NormalizeTtl(opts.ttl_seconds, pol)
         accessMode == NormalizeAccessMode(opts.access, pol.defaultExposeFilesAccess)
     IN creation' =
          [creation EXCEPT
             !.pc = "normalized", !.type = "files", !.opts = opts, !.clock = now,
             !.ttlSeconds = ttlSeconds, !.expiresAt = now + ttlSeconds * 1000,
             !.accessMode = accessMode, !.protectOrigin = NeedProxyFiles(accessMode)]
  /\ UNCHANGED NotCreationVars

\* mkdirp and summarizeExposeInputs have settled: the session literal
CreateFilesSession(elapsed) ==
  /\ creation.pc = "normalized"
  /\ creation' = [creation EXCEPT !.pc = "session",
                                  !.clock = creation.clock + elapsed,
                                  !.createdAt = creation.clock + elapsed]
  /\ UNCHANGED NotCreationVars

\* the file server listens: the proxy test
CreateFilesTarget ==
  /\ creation.pc = "session"
  /\ creation' = [creation EXCEPT !.pc = "targeted",
                                  !.target = IF creation.protectOrigin THEN "proxy"
                                             ELSE "fileServer"]
  /\ UNCHANGED NotCreationVars

CreationNext ==
  \/ \E opts \in CreationOptions, now \in ClockReads, elapsed \in Elapsed :
        CreatePort(opts, now, elapsed)
  \/ \E opts \in FilesOptions, now \in ClockReads : CreateFilesBegin(opts, now)
  \/ \E elapsed \in Elapsed : CreateFilesSession(elapsed)
  \/ CreateFilesTarget

SpecCreation == CreationInit /\ [][CreationNext]_vars

\* the explicit protect_origin flag when one was given, else access mode # none
ProtectOriginOf(c) ==
  IF c.opts.protect_origin = "unset" THEN c.accessMode # "none"
  ELSE c.opts.protect_origin = "true"

\* C17: expose_port puts the tunnel on a reverse proxy exactly when
\* protectOrigin (the explicit flag, else access mode # none) holds or the
\* session's allow-list is non-empty or rateLimit.enabled holds, and on the
\* service port otherwise; a call without options under the built-in policy
\* never targets the service port; expose_files inserts the proxy exactly when
\* the access mode is not none.
C17_ProxyInsertion ==
  creation.pc = "targeted" =>
    /\ creation.type = "port" =>
         /\ creation.target \in {"proxy", "service"}
         /\ creation.target = "proxy" <=>
              \/ ProtectOriginOf(creation)
              \/ Len(creation.allowlistPaths) > 0
              \/ creation.policy.rateLimitEnabled
         /\ (creation.opts = NoOptions /\ creation.policy = DefaultPolicy) =>
              creation.target # "service"
    /\ creation.type = "files" =>
         /\ creation.target \in {"proxy", "fileServer"}
         /\ creation.target = "proxy" <=> creation.accessMode # "none"

\* C17 witness: with access none, no explicit flag and no allow-list, rate
\* limiting alone put the tunnel of expose_port on the proxy
C17_Witness ==
  /\ creation.pc = "targeted" /\ creation.type = "port"
  /\ creation.accessMode = "none" /\ creation.opts.protect_origin = "unset"
  /\ creation.allowlistPaths = <<>> /\ creation.policy.rateLimitEnabled
  /\ creation.target = "proxy"

\* ttl_seconds as requested, when it is a number: below / above a bound
RequestedBelow(c, bound) ==
  c.opts.ttl_seconds.type = "number" /\ c.opts.ttl_seconds.halves < 2 * bound
RequestedAbove(c, bound) ==
  c.opts.ttl_seconds.type = "number" /\ c.opts.ttl_seconds.halves > 2 * bound

\* the effective TTL lies in [60, maxTtlSeconds] and follows the clamping rules
TtlClamped(c) ==
  /\ c.ttlSeconds >= MinTtlSeconds /\ c.ttlSeconds <= c.policy.maxTtlSeconds
  /\ RequestedBelow(c, MinTtlSeconds) => c.ttlSeconds = MinTtlSeconds
  /\ RequestedAbove(c, c.policy.maxTtlSeconds) => c.ttlSeconds = c.policy.maxTtlSeconds
  /\ c.opts.ttl_seconds.type = "undefined" => c.ttlSeconds = c.policy.defaultTtlSeconds

\* C20: once the session literal of an exposure is built, its effective TTL is
\* within [60, policy.maxTtlSeconds] (below 60 gives 60, above maxTtlSeconds
\* gives maxTtlSeconds, absent gives defaultTtlSeconds), expiresAt equals
\* createdAt plus that TTL, and createdAt <= expiresAt.
C20_TtlAndExpiry ==
  creation.pc \in {"session", "targeted"} =>
    /\ TtlClamped(creation)
    /\ creation.expiresAt = creation.createdAt + creation.ttlSeconds * 1000
    /\ creation.createdAt <= creation.expiresAt

\* ---------------------------------------------------------------------------
\* appendLog: the log of one session
\* ---------------------------------------------------------------------------

MAX_LOG_LINES == 4000

\* appends considered
MaxAppends == 4003

\* who appends: the cloudflared output readers, the proxy / file server
\* handlers, and the manager itself
Components == {"tunnel", "origin", "manager"}

\* logs: [] of the session literal; an entry is represented by its append number
LogInit ==
  /\ LifeInit /\ StopUnused /\ ProxyUnused /\ CreationUnused /\ PartsUnused
  /\ logs = <<>>
  /\ appended = 0

\* mutant: at the limit the new entry is the one that is dropped
AppendLogKeepingOldest(log, entry) ==
  IF Len(log) >= MAX_LOG_LINES THEN log ELSE Append(log, entry)

\* push(entry), then splice(0, length - MAX_LOG_LINES) when over the limit
AppendLog(log, entry) ==
  LET pushed == Append(log, entry) IN
  IF Len(pushed) > MAX_LOG_LINES
  THEN SubSeq(pushed, Len(pushed) - MAX_LOG_LINES + 1, Len(pushed))
  ELSE pushed

\* one synchronous call of appendLog
AppendLogCall(component) ==
  /\ appended < MaxAppends
  /\ appended' = appended + 1
  /\ logs' = AppendLog(logs, appended + 1)
  /\ UNCHANGED NotLogVars

LogNext == \E component \in Components : AppendLogCall(component)

SpecLog == LogInit /\ [][LogNext]_vars

\* C19: after any sequence of appends the log holds at most 4000 entries, and
\* they are exactly the most recently appended ones in append order: with n
\* appends so far the log is entry n - Len + 1 up to entry n, where
\* Len = min(n, 4000).
C19_LogsMostRecent ==
  /\ Len(logs) <= 4000
  /\ Len(logs) = (IF appended <= 4000 THEN appended ELSE 4000)
  /\ \A k \in 1..Len(logs) : logs[k] = appended - Len(logs) + k

\* C19 witness: two appends past the limit, entries 1 and 2 are gone
C19_Witness ==
  /\ appended = 4002 /\ Len(logs) = 4000 /\ logs[1] = 3 /\ logs[4000] = 4002

\* C23 (stopExposure): whether or not the appends to audit.jsonl and the write
\* of sessions.json fail, a stopExposure call does not fail, and every session
\* it has moved to stopped or expired is reported in `stopped`.
C23_PersistFailuresHarmless ==
  /\ stopCall.pc # "threw"
  /\ stopCall.pc = "returned" =>
       \A i \in stopCall.had :
         mgr.status[i] \in {"stopped", "expired"} => i \in Range(stopCall.res.stopped)

\* ---------------------------------------------------------------------------
\* mergePolicy: built-in defaults, plugin config, policy file
\* ---------------------------------------------------------------------------

\* a key that the object does not have
Absent == -8888888

\* Numbers of the two configurations are given in halves (241 is 120.5), so
\* that Math.trunc has something to cut off; NotANumber is a value that is no
\* number (a string, say), and NaN once arithmetic has touched it.  The
\* merged policy holds whole numbers.
EmptyConfig ==
  [defaultTtlSeconds |-> Absent, maxTtlSeconds |-> Absent,
   defaultExposePortAccess |-> "undefined", defaultExposeFilesAccess |-> "undefined",
   blockedPorts |-> <<Absent>>, allowedPathRoots |-> NoList,
   edgeIpVersion |-> "undefined", protocol |-> "undefined",
   enabled |-> "undefined", windowMs |-> Absent, maxRequests |-> Absent]

DEFAULT_POLICY ==
  [defaultTtlSeconds |-> 3600, maxTtlSeconds |-> 86400,
   defaultExposePortAccess |-> "token", defaultExposeFilesAccess |-> "none",
   blockedPorts |-> <<22, 2375, 2376>>, allowedPathRoots |-> <<>>,
   edgeIpVersion |-> "4", protocol |-> "http2",
   enabled |-> TRUE, windowMs |-> 60000, maxRequests |-> 240]

\* the configurations considered: one group of keys is set at a time
TtlConfigs ==
  {[EmptyConfig EXCEPT !.defaultTtlSeconds = d, !.maxTtlSeconds = m] :
     d \in {Absent, NotANumber, 60, 241, 14400}, m \in {Absent, NotANumber, 60, 241, 14400}}
AccessConfigs ==
  {[EmptyConfig EXCEPT !.defaultExposePortAccess = a, !.defaultExposeFilesAccess = b] :
     a \in {"undefined", "basic", "open"}, b \in {"undefined", "basic", "open"}}
TunnelConfigs ==
  {[EmptyConfig EXCEPT !.edgeIpVersion = v, !.protocol = q] :
     v \in {"undefined", "6", "5"}, q \in {"undefined", "quic", "h3"}}
RateLimitConfigs ==
  {[EmptyConfig EXCEPT !.enabled = en, !.windowMs = w, !.maxRequests = r] :
     en \in {"undefined", "true", "false", "no"},
     w \in {Absent, NotANumber, 1000, 10001, 8000000},
     r \in {Absent, 0, 21, 400000}}
ListConfigs ==
  {[EmptyConfig EXCEPT !.blockedPorts = b, !.allowedPathRoots = r] :
     b \in {<<Absent>>, <<>>, <<44, 0, 131072, 16161, 44, NotANumber>>},
     r \in {NoList, <<>>, <<" ", " /a">>}}

MergeInputs ==
  (TtlConfigs \X TtlConfigs) \cup (AccessConfigs \X AccessConfigs) \cup
  (TunnelConfigs \X TunnelConfigs) \cup (RateLimitConfigs \X RateLimitConfigs) \cup
  (ListConfigs \X ListConfigs)

\* Math.trunc, Math.max and Math.min; NaN in, NaN out
JsTrunc(h) == IF h = NotANumber THEN NotANumber ELSE TruncHalves(h)
JsMax(a, b) == IF a = NotANumber \/ b = NotANumber THEN NotANumber ELSE MathMax(a, b)
JsMin(a, b) == IF a = NotANumber \/ b = NotANumber THEN NotANumber ELSE MathMin(a, b)

\* a ?? b
Coalesce(a, b) == IF a = Absent THEN b ELSE a

\* values of the defaults, which are whole numbers, in halves
Halves(n) == 2 * n

NormalizeAccess(value, fallback) == IF value \in AccessModes THEN value ELSE fallback

RECURSIVE Dedupe(_, _)
Dedupe(q, out) ==
  IF q = <<>> THEN out
  ELSE Dedupe(Tail(q), IF Head(q) \in Range(out) THEN out ELSE Append(out, Head(q)))

\* asPortArray; <<Absent>> is its undefined
IsPort(v) == v # NotANumber /\ v > 0 /\ v <= MaxPort
TruncAll(q) == [k \in 1..Len(q) |-> JsTrunc(q[k])]
AsPortArray(input) ==
  IF input = <<Absent>> THEN <<Absent>>
  ELSE Dedupe(SelectSeq(TruncAll(input), IsPort), <<>>)

\* asStringArray; NoList is its undefined
NonEmpty(x) == x # ""
TrimAll(q) == [k \in 1..Len(q) |-> TrimEntry(q[k])]
AsStringArray(input) == IF input = NoList THEN NoList ELSE SelectSeq(TrimAll(input), NonEmpty)

\* {...defaults, ...plugin, ...file} for one key
SpreadKey(d, p, f, none) == IF f # none THEN f ELSE IF p # none THEN p ELSE d

EdgeIpVersions == {"4", "6", "auto"}
Protocols == {"http2", "quic", "auto"}

MergePolicy(defaults, pluginConfig, fileConfig) ==
  LET mergedDefaultTtl ==
        IF fileConfig.defaultTtlSeconds \notin {Absent, NotANumber}
        THEN fileConfig.defaultTtlSeconds
        ELSE Coalesce(pluginConfig.defaultTtlSeconds, Halves(defaults.defaultTtlSeconds))
      mergedMaxTtl ==
        IF fileConfig.maxTtlSeconds \notin {Absent, NotANumber}
        THEN fileConfig.maxTtlSeconds
        ELSE Coalesce(pluginConfig.maxTtlSeconds, Halves(defaults.maxTtlSeconds))
      filePorts == AsPortArray(fileConfig.blockedPorts)
      pluginPorts == AsPortArray(pluginConfig.blockedPorts)
      fileRoots == AsStringArray(fileConfig.allowedPathRoots)
      pluginRoots == AsStringArray(pluginConfig.allowedPathRoots)
      edge == SpreadKey(defaults.edgeIpVersion, pluginConfig.edgeIpVersion,
                        fileConfig.edgeIpVersion, "undefined")
      protocol == SpreadKey(defaults.protocol, pluginConfig.protocol,
                            fileConfig.protocol, "undefined")
      enabled == SpreadKey(IF defaults.enabled THEN "true" ELSE "false",
                           pluginConfig.enabled, fileConfig.enabled, "undefined")
      windowMs == SpreadKey(Halves(defaults.windowMs), pluginConfig.windowMs,
                            fileConfig.windowMs, Absent)
      maxRequests == SpreadKey(Halves(defaults.maxRequests), pluginConfig.maxRequests,
                               fileConfig.maxRequests, Absent)
      defaultTtlSeconds == JsMax(60, JsTrunc(mergedDefaultTtl))
  IN [defaultTtlSeconds |-> defaultTtlSeconds,
      maxTtlSeconds |-> JsMax(defaultTtlSeconds, JsTrunc(mergedMaxTtl)),
      defaultExposePortAccess |->
        NormalizeAccess(fileConfig.defaultExposePortAccess,
                        NormalizeAccess(pluginConfig.defaultExposePortAccess,
                                        defaults.defaultExposePortAccess)),
      defaultExposeFilesAccess |->
        NormalizeAccess(fileConfig.defaultExposeFilesAccess,
                        NormalizeAccess(pluginConfig.defaultExposeFilesAccess,
                                        defaults.defaultExposeFilesAccess)),
      blockedPorts |-> IF filePorts # <<Absent>> THEN filePorts
                       ELSE IF pluginPorts # <<Absent>> THEN pluginPorts
                       ELSE defaults.blockedPorts,
      allowedPathRoots |-> IF fileRoots # NoList THEN fileRoots
                           ELSE IF pluginRoots # NoList THEN pluginRoots
                           ELSE defaults.allowedPathRoots,
      edgeIpVersion |-> IF edge \in EdgeIpVersions THEN edge ELSE defaults.edgeIpVersion,
      protocol |-> IF protocol \in Protocols THEN protocol ELSE defaults.protocol,
      enabled |-> enabled # "false",
      windowMs |-> JsMin(3600000, JsMax(1000, JsTrunc(windowMs))),
      maxRequests |-> JsMin(100000, JsMax(1, JsTrunc(maxRequests)))]

MergeInit ==
  /\ LifeInit /\ UnitsUnused
  /\ PstoreUnused /\ GcUnused /\ ForiginUnused /\ TunUnused /\ AqueryUnused
  /\ TrafficUnused /\ CliUnused
  /\ \E inp \in MergeInputs :
       merge = [pc |-> "loaded", pluginConfig |-> inp[1], fileConfig |-> inp[2],
                effective |-> DEFAULT_POLICY]

\* loadPolicy: const effective = mergePolicy(DEFAULT_POLICY, pluginConfig, fileConfig)
LoadPolicyMerge ==
  /\ merge.pc = "loaded"
  /\ merge' = [merge EXCEPT !.pc = "merged",
                            !.effective = MergePolicy(DEFAULT_POLICY, merge.pluginConfig,
                                                      merge.fileConfig)]
  /\ UNCHANGED NotMergeVars

MergeNext == LoadPolicyMerge

SpecMerge == MergeInit /\ [][MergeNext]_vars

\* the value of highest precedence that is present and valid: policy file,
\* then plugin config, then the built-in default
Pick(f, p, d, Valid(_)) == IF Valid(f) THEN f ELSE IF Valid(p) THEN p ELSE d

IsNumber(v) == v \notin {Absent, NotANumber}
IsFlag(v) == v \in {"true", "false"}
IsAccess(v) == v \in AccessModes
IsEdge(v) == v \in EdgeIpVersions
IsProtocol(v) == v \in Protocols

PickedNumber(key) ==
  TruncHalves(Pick(merge.fileConfig[key], merge.pluginConfig[key],
                   Halves(DEFAULT_POLICY[key]), IsNumber))

Clamp(lo, hi, n) == MathMax(lo, MathMin(hi, n))

\* every number of the two configurations is a number or absent
NumericInputs ==
  \A c \in {merge.pluginConfig, merge.fileConfig} :
    /\ \A key \in {"defaultTtlSeconds", "maxTtlSeconds", "windowMs", "maxRequests"} :
         c[key] # NotANumber
    /\ \A k \in 1..Len(c.blockedPorts) : c.blockedPorts[k] # NotANumber

\* C21: for numeric inputs the merged policy has 60 <= defaultTtlSeconds <=
\* maxTtlSeconds, 1000 <= windowMs <= 3600000, 1 <= maxRequests <= 100000, its
\* blocked ports within 1..65535 and its enums within their sets, and its
\* defaultTtlSeconds is the merged value clamped into [60, merged maxTtlSeconds].
C21_MergedPolicyRanges ==
  (merge.pc = "merged" /\ NumericInputs) =>
    LET e == merge.effective IN
    /\ 60 <= e.defaultTtlSeconds /\ e.defaultTtlSeconds <= e.maxTtlSeconds
    /\ 1000 <= e.windowMs /\ e.windowMs <= 3600000
    /\ 1 <= e.maxRequests /\ e.maxRequests <= 100000
    /\ \A k \in 1..Len(e.blockedPorts) : e.blockedPorts[k] \in 1..65535
    /\ e.defaultExposePortAccess \in {"token", "basic", "none"}
    /\ e.defaultExposeFilesAccess \in {"token", "basic", "none"}
    /\ e.edgeIpVersion \in {"4", "6", "auto"}
    /\ e.protocol \in {"http2", "quic", "auto"}
    /\ e.defaultTtlSeconds =
         Clamp(60, PickedNumber("maxTtlSeconds"), PickedNumber("defaultTtlSeconds"))

\* C22: every field of the merged policy comes from the policy file when the
\* file has a valid value for it, else from the plugin config when that has a
\* valid value, else from the defaults (then clamped); tunnel and rateLimit
\* key by key, blockedPorts and allowedPathRoots as whole lists.
C22_MergePrecedence ==
  merge.pc = "merged" =>
    LET e == merge.effective
        f == merge.fileConfig
        p == merge.pluginConfig
        d == DEFAULT_POLICY
    IN
    /\ e.defaultTtlSeconds = MathMax(60, PickedNumber("defaultTtlSeconds"))
    /\ e.maxTtlSeconds = MathMax(e.defaultTtlSeconds, PickedNumber("maxTtlSeconds"))
    /\ e.defaultExposePortAccess =
         Pick(f.defaultExposePortAccess, p.defaultExposePortAccess,
              d.defaultExposePortAccess, IsAccess)
    /\ e.defaultExposeFilesAccess =
         Pick(f.defaultExposeFilesAccess, p.defaultExposeFilesAccess,
              d.defaultExposeFilesAccess, IsAccess)
    /\ e.edgeIpVersion = Pick(f.edgeIpVersion, p.edgeIpVersion, d.edgeIpVersion, IsEdge)
    /\ e.protocol = Pick(f.protocol, p.protocol, d.protocol, IsProtocol)
    /\ e.enabled = (Pick(f.enabled, p.enabled, "true", IsFlag) = "true")
    /\ e.windowMs = Clamp(1000, 3600000, PickedNumber("windowMs"))
    /\ e.maxRequests = Clamp(1, 100000, PickedNumber("maxRequests"))
    /\ e.blockedPorts =
         (IF f.blockedPorts # <<Absent>> THEN AsPortArray(f.blockedPorts)
          ELSE IF p.blockedPorts # <<Absent>> THEN AsPortArray(p.blockedPorts)
          ELSE d.blockedPorts)
    /\ e.allowedPathRoots =
         (IF f.allowedPathRoots # NoList THEN AsStringArray(f.allowedPathRoots)
          ELSE IF p.allowedPathRoots # NoList THEN AsStringArray(p.allowedPathRoots)
          ELSE d.allowedPathRoots)

\* ---------------------------------------------------------------------------
\* runGc, with an exposeFiles call that creates a session meanwhile
\* ---------------------------------------------------------------------------

\* live sessions: "a" (files, with a workspaceDir) and "p" (port, with a
\* cloudflared child); "n" is the files session being created; "old" is left
\* over from an earlier process
GcLiveIds == {"a", "p"}
GcPids == {1, 2}

\* pid 0: the row has no processPid
GcRows == [id : {"p", "old"}, processPid : {0} \cup GcPids]

IdleGcCall ==
  [pc |-> "idle", activeWorkspaces |-> {}, entries |-> <<>>, removedWorkspaces |-> <<>>,
   killedPids |-> <<>>, atStart |-> {}]

\* sessions.json holds what persistSessionsSnapshot wrote last, possibly in an
\* earlier process; pids of that process may have been reused since
GcInit ==
  /\ LifeInit /\ UnitsUnused
  /\ MergeUnused /\ PstoreUnused /\ ForiginUnused /\ TunUnused /\ AqueryUnused
  /\ TrafficUnused /\ CliUnused
  /\ \E live \in SUBSET GcLiveIds, leftover \in SUBSET {"a", "old"}, note \in BOOLEAN,
        rows \in SUBSET GcRows, alive \in SUBSET GcPids, childPid \in GcPids :
       /\ Cardinality(rows) <= 2
       /\ "p" \in live => childPid \in alive
       /\ gc = [sessions |-> live,
                workspaceDir |-> [i \in {"a", "p", "n"} |-> i # "p"],
                childPid |-> childPid,
                dirs |-> (live \cap {"a"}) \cup leftover,
                note |-> note,
                rows |-> rows,
                alive |-> alive,
                signalled |-> {},
                audit |-> <<>>,
                files |-> "idle",
                call |-> IdleGcCall]

\* the entries of the workspaces root as readdir lists them: directories
\* named after session ids, and "note", a plain file
GcListing(dirs, note) ==
  SelectSeq(<<"a", "n", "old">>, LAMBDA d : d \in dirs) \o (IF note THEN <<"note">> ELSE <<>>)

\* runGc up to `await fs.readdir`
GcBegin ==
  /\ gc.call.pc = "idle"
  /\ gc' = [gc EXCEPT !.call.pc = "readdir",
                      !.call.activeWorkspaces = {i \in gc.sessions : gc.workspaceDir[i]},
                      !.call.atStart = gc.dirs]
  /\ UNCHANGED NotGcVars

\* readdir settles with the entries on disk now
GcReaddir ==
  /\ gc.call.pc = "readdir"
  /\ gc' = [gc EXCEPT !.call.pc = "sweep", !.call.entries = GcListing(gc.dirs, gc.note)]
  /\ UNCHANGED NotGcVars

\* one iteration of the loop over the entries, up to the end of `await fs.rm`
GcSweepOne ==
  /\ gc.call.pc = "sweep" /\ gc.call.entries # <<>>
  /\ LET name == Head(gc.call.entries)
         rest == [gc EXCEPT !.call.entries = Tail(@)]
     IN gc' = IF name = "note" \/ name \in gc.call.activeWorkspaces THEN rest
              ELSE [rest EXCEPT !.dirs = @ \ {name},
                                !.call.removedWorkspaces = Append(@, name)]
  /\ UNCHANGED NotGcVars

\* readFile(sessionsFile) settles: the loop over the rows, then
\* persistSessionsSnapshot is issued
GcKill ==
  /\ gc.call.pc = "sweep" /\ gc.call.entries = <<>>
  /\ LET targets == {r.processPid : r \in {x \in gc.rows : /\ x.processPid # 0
                                                         /\ x.id \notin gc.sessions
                                                         /\ x.processPid \in gc.alive}}
     IN gc' = [gc EXCEPT !.call.pc = "persist",
                         !.call.killedPids = SeqOf(targets),
                         !.signalled = @ \cup targets]
  /\ UNCHANGED NotGcVars

\* persistSessionsSnapshot and writeAudit({event: "gc_run"}) settle; the return
GcReturn ==
  /\ gc.call.pc = "persist"
  /\ gc' = [gc EXCEPT !.call.pc = "done",
                      !.rows = {[id |-> i, processPid |-> IF i = "p" THEN gc.childPid ELSE 0] :
                                  i \in gc.sessions},
                      !.audit = Append(@, "gc_run")]
  /\ UNCHANGED NotGcVars

\* exposeFiles of session "n": mkdirp(workspaceDir) settles
GcFilesMkdir ==
  /\ gc.files = "idle"
  /\ gc' = [gc EXCEPT !.files = "summarize", !.dirs = @ \cup {"n"}]
  /\ UNCHANGED NotGcVars

\* summarizeExposeInputs settles: this.sessions.set(id, session)
GcFilesInsert ==
  /\ gc.files = "summarize"
  /\ gc' = [gc EXCEPT !.files = "inserted", !.sessions = @ \cup {"n"}]
  /\ UNCHANGED NotGcVars

GcNext ==
  \/ GcBegin
  \/ GcReaddir
  \/ GcSweepOne
  \/ GcKill
  \/ GcReturn
  \/ GcFilesMkdir
  \/ GcFilesInsert

SpecGc == GcInit /\ [][GcNext]_vars

\* C24: run_gc never removes the workspace of a session that is in the live
\* table at that moment and never signals the child of one; once it has
\* returned, the directories that were there when it started and belong to no
\* live session are gone, the pids it reports were alive pids of snapshot rows
\* of ids outside the table, and there is one gc_run audit event.
C24_GcSparesLiveSessions ==
  /\ [][\A d \in gc.dirs \ gc'.dirs : ~(d \in gc.sessions /\ gc.workspaceDir[d])]_vars
  /\ []("p" \in gc.sessions => gc.childPid \notin gc.signalled)
  /\ [](gc.call.pc = "done" =>
          /\ \A d \in gc.call.atStart : d \notin gc.sessions => d \notin gc.dirs
          /\ Range(gc.call.killedPids) \subseteq gc.alive
          /\ Len(gc.audit) = 1 /\ gc.audit[1] = "gc_run")

\* ---------------------------------------------------------------------------
\* maintenance("set_policy"): two calls in flight
\* ---------------------------------------------------------------------------

Callers == {1, 2}

\* opts.policy of a call: one key of the policy, with a value in halves; keys of
\* tunnel and rateLimit stand for the nested objects {rateLimit: {windowMs: ..}}
PatchKeys == {"defaultTtlSeconds", "maxTtlSeconds", "windowMs", "maxRequests"}
PatchValues == {240, 4000}
Patches == {[EmptyConfig EXCEPT ![k] = v] : k \in PatchKeys, v \in PatchValues}

\* the keys a patch sets
KeysOf(patch) == {k \in DOMAIN patch : patch[k] # EmptyConfig[k]}

\* deepMerge: the keys of the patch override those of the base, objects merge
\* key by key
DeepMerge(base, patch) ==
  [k \in DOMAIN base |-> IF patch[k] # EmptyConfig[k] THEN patch[k] ELSE base[k]]

IdlePolicyCall ==
  [pc |-> "idle", patch |-> EmptyConfig, current |-> EmptyConfig, fileConfig |-> EmptyConfig]

\* policy.json is missing or holds an earlier patch; this.policy is what
\* initialize() loaded from it
PstoreInit ==
  /\ LifeInit /\ UnitsUnused
  /\ MergeUnused /\ GcUnused /\ ForiginUnused /\ TunUnused /\ AqueryUnused
  /\ TrafficUnused /\ CliUnused
  /\ \E f \in {EmptyConfig} \cup Patches :
       pstore = [file |-> f,
                 policy |-> MergePolicy(DEFAULT_POLICY, EmptyConfig, f),
                 audit |-> <<>>,
                 calls |-> [c \in Callers |-> IdlePolicyCall]]

\* maintenance("set_policy", {policy}) up to `await this.readPolicyJson()`
SetPolicyBegin(c, patch) ==
  /\ pstore.calls[c].pc = "idle"
  /\ pstore' = [pstore EXCEPT !.calls[c].pc = "read", !.calls[c].patch = patch]
  /\ UNCHANGED NotPstoreVars

\* readPolicyJson settles; deepMerge; fs.writeFile(policyFile) is issued
SetPolicyRead(c) ==
  /\ pstore.calls[c].pc = "read"
  /\ pstore' = [pstore EXCEPT !.calls[c].pc = "write", !.calls[c].current = pstore.file]
  /\ UNCHANGED NotPstoreVars

\* the write settles; reloadPolicy: loadPolicy issues its read of policy.json
SetPolicyWritten(c) ==
  /\ pstore.calls[c].pc = "write"
  /\ pstore' = [pstore EXCEPT !.calls[c].pc = "reload",
                              !.file = DeepMerge(pstore.calls[c].current, pstore.calls[c].patch)]
  /\ UNCHANGED NotPstoreVars

\* loadPolicy: the read of policy.json settles; mergePolicy; the reads of the
\* ignore files are issued
SetPolicyLoaded(c) ==
  /\ pstore.calls[c].pc = "reload"
  /\ pstore' = [pstore EXCEPT !.calls[c].pc = "ignore", !.calls[c].fileConfig = pstore.file]
  /\ UNCHANGED NotPstoreVars

\* loadPolicy returns: this.policy = loaded.effective; writeAudit; the return
SetPolicyReturn(c) ==
  /\ pstore.calls[c].pc = "ignore"
  /\ pstore' = [pstore EXCEPT !.calls[c].pc = "returned",
                              !.policy = MergePolicy(DEFAULT_POLICY, EmptyConfig,
                                                     pstore.calls[c].fileConfig),
                              !.audit = Append(@, "policy_updated")]
  /\ UNCHANGED NotPstoreVars

PstoreNext ==
  \/ \E c \in Callers, patch \in Patches : SetPolicyBegin(c, patch)
  \/ \E c \in Callers : SetPolicyRead(c)
  \/ \E c \in Callers : SetPolicyWritten(c)
  \/ \E c \in Callers : SetPolicyLoaded(c)
  \/ \E c \in Callers : SetPolicyReturn(c)

SpecPstore == PstoreInit /\ [][PstoreNext]_vars

\* C25: when two set_policy calls with patches on different keys have both
\* returned, policy.json holds both patches, and the effective policy is what
\* loading that policy.json gives.
C25_PolicyUpdatesSerialized ==
  (/\ \A c \in Callers : pstore.calls[c].pc = "returned"
   /\ KeysOf(pstore.calls[1].patch) \cap KeysOf(pstore.calls[2].patch) = {}) =>
    /\ \A c \in Callers : \A k \in KeysOf(pstore.calls[c].patch) :
         pstore.file[k] = pstore.calls[c].patch[k]
    /\ pstore.policy = MergePolicy(DEFAULT_POLICY, EmptyConfig, pstore.file)

\* ---------------------------------------------------------------------------
\* startFileServer: the request handler of the file origin
\* ---------------------------------------------------------------------------

\* Paths are sequences of segments.  The session's workspaceDir, and what is on
\* disk: some files inside it (one only when `single`), the bundle in zip
\* mode, and a file next to the workspace.
WorkspaceDir == <<"state", "ws">>
BundleName == "_cfshare_bundle.zip"

WorkspaceFiles(single) ==
  IF single THEN {<<"a.txt">>} ELSE {<<"a.txt">>, <<"sub", "b.txt">>, <<"..foo">>}

RegularFiles(single, mode) ==
  {WorkspaceDir \o f : f \in WorkspaceFiles(single)}
    \cup (IF mode = "zip" THEN {WorkspaceDir \o <<BundleName>>} ELSE {})
    \cup {<<"state", "secret">>}

Directories(single) ==
  {<<>>, <<"state">>, WorkspaceDir} \cup (IF single THEN {} ELSE {WorkspaceDir \o <<"sub">>})

\* the path of req.url as sent, by segments; <<"", "">> is the target "//"
RawSegments ==
  {"a.txt", "sub", "b.txt", "..", "%2e%2e", "..%2Fsecret", "..foo", "download.zip",
   "secret", "%zz", BundleName}
RawPaths == UNION {[1..n -> RawSegments] : n \in 0..2} \cup {<<"", "">>}

Methods == {"GET", "HEAD", "POST"}

\* the Range header: none, one that lies within the file, one that does not
Ranges == {"none", "inside", "outside"}

\* new URL(req.url, "http://127.0.0.1").pathname: dot segments are resolved,
\* percent-encoded dots included
RECURSIVE UrlPathFrom(_, _)
UrlPathFrom(raw, out) ==
  IF raw = <<>> THEN out
  ELSE UrlPathFrom(Tail(raw),
                   IF Head(raw) \in {"..", "%2e%2e"}
                   THEN (IF out = <<>> THEN out ELSE SubSeq(out, 1, Len(out) - 1))
                   ELSE Append(out, Head(raw)))

UrlPathname(raw) == UrlPathFrom(raw, <<>>)

\* decodeURIComponent of one segment; "%zz" makes it throw
DecodeThrows(path) == \E k \in 1..Len(path) : path[k] = "%zz"
DecodeSegment(x) == IF x = "..%2Fsecret" THEN <<"..", "secret">> ELSE <<x>>

RECURSIVE DecodePath(_)
DecodePath(path) ==
  IF path = <<>> THEN <<>> ELSE DecodeSegment(Head(path)) \o DecodePath(Tail(path))

\* path.join(workspaceDir, normalized): ".." steps up, never above the root
RECURSIVE PathJoin(_, _)
PathJoin(base, rel) ==
  IF rel = <<>> THEN base
  ELSE PathJoin(IF Head(rel) = ".."
                THEN (IF base = <<>> THEN base ELSE SubSeq(base, 1, Len(base) - 1))
                ELSE Append(base, Head(rel)),
                Tail(rel))

\* rel.startsWith(".."), for a first segment of path.relative(base, target)
StartsWithDots(x) == x \in {"..", "..foo"}

\* mutant: every target counts as inside the base
IsSubPathAlways(target, base) == TRUE

\* isSubPath: path.relative(base, target) is empty, or does not start with ".."
IsSubPath(target, base) ==
  /\ IsPrefix(base, target)
  /\ Len(target) > Len(base) => ~StartsWithDots(target[Len(base) + 1])

NoFile == <<"none">>
NoOriginResponse == [status |-> 0, body |-> "none", file |-> NoFile]
OriginJson(code, error) == [status |-> code, body |-> error, file |-> NoFile]

IdleOriginRequest ==
  [pc |-> "none", method |-> "GET", raw |-> <<>>, range |-> "none", limited |-> FALSE]

ForiginInit ==
  /\ LifeInit /\ UnitsUnused
  /\ MergeUnused /\ PstoreUnused /\ GcUnused /\ TunUnused /\ AqueryUnused
  /\ TrafficUnused /\ CliUnused
  /\ \E mode \in {"normal", "zip"}, presentation \in {"download", "preview"},
        single \in BOOLEAN, maxDownloads \in {0, 1} :
       forigin = [mode |-> mode, presentation |-> presentation, single |-> single,
                  maxDownloads |-> maxDownloads,
                  stats |-> [requests |-> 0, downloads |-> 0],
                  stopIssued |-> FALSE,
                  req |-> IdleOriginRequest, res |-> NoOriginResponse]

\* a response of the handler; `counted`: stats.downloads was incremented;
\* `checked`: checkMaxDownloads ran afterwards
Answer(res) == [res |-> res, counted |-> FALSE, checked |-> FALSE]

\* sendFileResponse followed by checkMaxDownloads; fs.stat of a missing path
\* throws into the handler's catch
SendFileResponse(o, method, filePath, range) ==
  IF filePath \notin RegularFiles(o.single, o.mode) \cup Directories(o.single)
  THEN Answer(OriginJson(500, "internal_error"))
  ELSE IF method \notin {"GET", "HEAD"}
  THEN [Answer(OriginJson(405, "method_not_allowed")) EXCEPT !.checked = TRUE]
  ELSE IF range = "outside"
  THEN [Answer(OriginJson(416, "invalid_range")) EXCEPT !.checked = TRUE]
  ELSE [res |-> [status |-> IF range = "inside" THEN 206 ELSE 200,
                 body |-> IF method = "HEAD" THEN "none" ELSE "content",
                 file |-> filePath],
        counted |-> method # "HEAD", checked |-> TRUE]

\* the routing of the handler below the rate limiter
Route(o, method, raw, range) ==
  LET pathname == DecodePath(UrlPathname(raw))
      target == PathJoin(WorkspaceDir, pathname)
  IN IF pathname = <<>>
     THEN IF o.mode = "normal" /\ o.presentation = "preview" /\ o.single
          THEN SendFileResponse(o, method, WorkspaceDir \o <<"a.txt">>, range)
          ELSE Answer([status |-> 200,
                       body |-> IF method = "HEAD" THEN "none" ELSE "listing",
                       file |-> NoFile])
     ELSE IF o.mode = "zip"
     THEN IF pathname # <<"download.zip">>
          THEN Answer(OriginJson(404, "not_found"))
          ELSE SendFileResponse(o, method, WorkspaceDir \o <<BundleName>>, range)
     ELSE IF ~IsSubPath(target, WorkspaceDir)
             \/ target \notin RegularFiles(o.single, o.mode) \cup Directories(o.single)
     THEN Answer(OriginJson(404, "not_found"))
     ELSE IF target \notin RegularFiles(o.single, o.mode)
     THEN Answer(OriginJson(404, "not_file"))
     ELSE SendFileResponse(o, method, target, range)

\* one request, from its arrival to the end of the handler
OriginRequest(method, raw, range, limited) ==
  /\ forigin.req.pc = "none"
  /\ LET o == [forigin EXCEPT !.stats.requests = @ + 1,
                              !.req = [pc |-> "done", method |-> method, raw |-> raw,
                                       range |-> range, limited |-> limited]]
         routed == Route(forigin, method, raw, range)
         downloads == o.stats.downloads + (IF routed.counted THEN 1 ELSE 0)
     IN forigin' =
          IF limited THEN [o EXCEPT !.res = OriginJson(429, "rate_limited")]
          ELSE IF NewUrlThrows(raw) \/ DecodeThrows(UrlPathname(raw))
          THEN [o EXCEPT !.req.pc = "threw"]
          ELSE [o EXCEPT !.res = routed.res,
                         !.stats.downloads = downloads,
                         !.stopIssued = /\ routed.checked
                                        /\ o.maxDownloads # 0
                                        /\ downloads >= o.maxDownloads]
  /\ UNCHANGED NotForiginVars

ForiginNext ==
  \E method \in Methods, raw \in RawPaths, range \in Ranges, limited \in BOOLEAN :
     OriginRequest(method, raw, range, limited)

SpecForigin == ForiginInit /\ [][ForiginNext]_vars

\* the request was handled by the routing code
Routed == forigin.req.pc = "done" /\ ~forigin.req.limited

RequestedPath == DecodePath(UrlPathname(forigin.req.raw))

\* the decoded target lies outside the workspace
Escapes == ~IsPrefix(WorkspaceDir, PathJoin(WorkspaceDir, RequestedPath))

\* C26: a request with a method other than GET and HEAD is answered 405, gets
\* neither a listing nor file content, and leaves stats.downloads alone.
C26_OnlyGetAndHead ==
  (Routed /\ forigin.req.method \notin {"GET", "HEAD"}) =>
    /\ forigin.res.status = 405
    /\ forigin.res.body \notin {"listing", "content"}
    /\ forigin.stats.downloads = 0

\* C27: a file is served only if it is a regular file inside the workspace; a
\* path whose decoded target escapes the workspace gets 404 not_found; in zip
\* mode every path other than / and /download.zip gets 404.
C27_ServesOnlyWorkspaceFiles ==
  Routed =>
    /\ forigin.res.file # NoFile =>
         /\ forigin.res.file \in RegularFiles(forigin.single, forigin.mode)
         /\ IsPrefix(WorkspaceDir, forigin.res.file)
         /\ Len(forigin.res.file) > Len(WorkspaceDir)
    /\ Escapes => forigin.res.status = 404 /\ forigin.res.body = "not_found"
    /\ (forigin.mode = "zip" /\ RequestedPath \notin {<<>>, <<"download.zip">>}) =>
         forigin.res.status = 404 /\ forigin.res.file = NoFile

\* C27 witness: GET /..%2Fsecret in normal mode, where ../secret is a file next
\* to the workspace, was answered 404 not_found
C27_Witness ==
  /\ Routed /\ forigin.mode = "normal" /\ forigin.req.method = "GET"
  /\ forigin.req.raw = <<"..%2Fsecret">>
  /\ PathJoin(WorkspaceDir, RequestedPath) \in RegularFiles(forigin.single, forigin.mode)
  /\ forigin.res.status = 404 /\ forigin.res.body = "not_found"

\* ---------------------------------------------------------------------------
\* startTunnelWithRetry and startTunnel
\* ---------------------------------------------------------------------------

\* lines of cloudflared output delivered to onLine in one run
MaxLines == 2

Attempts == 1..MaxAttempts

\* a URL <scheme>://<label>.trycloudflare.com, or no URL
NoUrl == [scheme |-> "none", label |-> "none"]

\* what a line of output holds: no URL, or one URL under trycloudflare.com
LineKinds == {NoUrl} \cup [scheme : {"https", "http"}, label : {"one", "two", "api"}]

INVALID_QUICK_TUNNEL_SUBDOMAINS == {"api"}

\* CLOUDFLARE_URL_RE matches https URLs only
CloudflareUrlMatches(line) == IF line.scheme = "https" THEN {line} ELSE {}

IsValidQuickTunnelUrl(url) ==
  /\ url.scheme = "https"
  /\ url.label # "none"
  /\ url.label \notin INVALID_QUICK_TUNNEL_SUBDOMAINS

\* pickQuickTunnelUrlFromLine: the valid URL of the line, or NoUrl
PickQuickTunnelUrlFromLine(line) ==
  LET valid == {u \in CloudflareUrlMatches(line) : IsValidQuickTunnelUrl(u)} IN
  IF valid = {} THEN NoUrl ELSE CHOOSE u \in valid : TRUE

\* an attempt: its child (none, alive, failing: the spawn will emit `error`,
\* failed, exited), whether a signal was sent to it, the `settled` flag, the
\* 30 s timer, and how the promise of startTunnel was settled
NoAttempt ==
  [child |-> "none", sigterm |-> FALSE, settled |-> FALSE, timer |-> "unset",
   outcome |-> "pending", url |-> NoUrl, error |-> "none"]

\* an event handled by a listener of attempt `attempt`; n counts the events
NoEvent == [n |-> 0, attempt |-> 0, kind |-> "none", line |-> NoUrl]

TunEvent(t, k, kind, line) ==
  [n |-> t.last.n + 1, attempt |-> k, kind |-> kind, line |-> line]

\* `last` is the event handled last, `spawns` the number of spawn calls
TunInit ==
  /\ LifeInit /\ UnitsUnused
  /\ MergeUnused /\ PstoreUnused /\ GcUnused /\ ForiginUnused /\ AqueryUnused
  /\ TrafficUnused /\ CliUnused
  /\ tun = [pc |-> "idle", attempt |-> 0, att |-> [k \in Attempts |-> NoAttempt],
            lastError |-> "unknown", publicUrl |-> NoUrl, thrown |-> "none",
            spawns |-> 0, lines |-> 0, last |-> NoEvent]

\* startTunnel up to its promise: spawn, the timer, the listeners
TunSpawn(t, k, fails) ==
  [t EXCEPT !.pc = "waiting", !.attempt = k, !.spawns = @ + 1,
            !.att[k] = [NoAttempt EXCEPT !.child = IF fails THEN "failing" ELSE "alive",
                                         !.timer = "armed"]]

\* the catch of startTunnelWithRetry after attempt k was rejected: tunnel is
\* undefined, so nothing is terminated; the next attempt, or the final throw
TunRetry(t, k, message, fails) ==
  LET c == [t EXCEPT !.lastError = message] IN
  IF k < MaxAttempts THEN TunSpawn(c, k + 1, fails)
  ELSE [c EXCEPT !.pc = "threw", !.thrown = message]

\* the promise of attempt k is rejected, and startTunnelWithRetry resumes
TunReject(t, k, message, fails) ==
  TunRetry([t EXCEPT !.att[k].settled = TRUE, !.att[k].outcome = "rejected",
                     !.att[k].error = message],
           k, message, fails)

\* startTunnel throws before the spawn when the binary is not found, in
\* every attempt
TunNotFound(t) ==
  [t EXCEPT !.pc = "threw", !.attempt = MaxAttempts,
            !.att = [k \in Attempts |->
                       [NoAttempt EXCEPT !.outcome = "rejected",
                                         !.error = "cloudflared not found in PATH"]],
            !.lastError = "cloudflared not found in PATH",
            !.thrown = "cloudflared not found in PATH"]

TunBegin(found, fails) ==
  /\ tun.pc = "idle"
  /\ tun' = IF found THEN TunSpawn(tun, 1, fails) ELSE TunNotFound(tun)
  /\ UNCHANGED NotTunVars

\* onLine(line) of attempt k, and startTunnelWithRetry returning the tunnel
\* when the promise is resolved; a child that was signalled may still write
TunLineIgnoringSettled(k, line) ==
  /\ tun.att[k].child = "alive" /\ tun.lines < MaxLines
  /\ LET url == PickQuickTunnelUrlFromLine(line)
         t == [tun EXCEPT !.lines = @ + 1, !.last = TunEvent(tun, k, "line", line)]
     IN tun' = IF url # NoUrl
               THEN [t EXCEPT !.att[k].settled = TRUE, !.att[k].timer = "cleared",
                              !.att[k].outcome = "resolved", !.att[k].url = url,
                              !.pc = "returned", !.publicUrl = url]
               ELSE t
  /\ UNCHANGED NotTunVars

TunLine(k, line) ==
  /\ tun.att[k].child = "alive" /\ tun.lines < MaxLines
  /\ LET url == PickQuickTunnelUrlFromLine(line)
         t == [tun EXCEPT !.lines = @ + 1,
                          !.last = TunEvent(tun, k, "line", line)]
     IN tun' = IF url # NoUrl /\ ~tun.att[k].settled
               THEN [t EXCEPT !.att[k].settled = TRUE, !.att[k].timer = "cleared",
                              !.att[k].outcome = "resolved", !.att[k].url = url,
                              !.pc = "returned", !.publicUrl = url]
               ELSE t
  /\ UNCHANGED NotTunVars

\* the 30 s timer of attempt k fires
TunTimeout(k, fails) ==
  /\ tun.att[k].timer = "armed"
  /\ LET t == [tun EXCEPT !.att[k].timer = "fired",
                          !.last = TunEvent(tun, k, "timeout", NoUrl)]
     IN tun' = IF tun.att[k].settled THEN t
               ELSE TunReject([t EXCEPT !.att[k].sigterm = TRUE], k,
                              "timed out waiting for cloudflared URL", fails)
  /\ UNCHANGED NotTunVars

\* proc.once("error") of attempt k: the spawn failed
TunSpawnError(k, fails) ==
  /\ tun.att[k].child = "failing"
  /\ LET t == [tun EXCEPT !.att[k].child = "failed",
                          !.last = TunEvent(tun, k, "error", NoUrl)]
     IN tun' = IF tun.att[k].settled THEN t
               ELSE TunReject([t EXCEPT !.att[k].timer = "cleared"], k, "spawn error", fails)
  /\ UNCHANGED NotTunVars

\* proc.once("exit") of attempt k
TunExit(k, fails) ==
  /\ tun.att[k].child = "alive"
  /\ LET t == [tun EXCEPT !.att[k].child = "exited",
                          !.last = TunEvent(tun, k, "exit", NoUrl)]
     IN tun' = IF tun.att[k].settled THEN t
               ELSE TunReject([t EXCEPT !.att[k].timer = "cleared"], k,
                              "cloudflared exited before URL", fails)
  /\ UNCHANGED NotTunVars

TunNext ==
  \/ \E found \in BOOLEAN, fails \in BOOLEAN : TunBegin(found, fails)
  \/ \E k \in Attempts, line \in LineKinds : TunLine(k, line)
  \/ \E k \in Attempts, fails \in BOOLEAN : TunTimeout(k, fails)
  \/ \E k \in Attempts, fails \in BOOLEAN : TunSpawnError(k, fails)
  \/ \E k \in Attempts, fails \in BOOLEAN : TunExit(k, fails)

SpecTun == TunInit /\ [][TunNext]_vars

\* the step handles an event of attempt k
Handles(k) == tun'.last.n # tun.last.n /\ tun'.last.attempt = k

SettledAs(a, outcome, url, error) ==
  a.settled /\ a.outcome = outcome /\ a.url = url /\ a.error = error

\* what the event makes of an attempt that was pending
SettledBy(a, ev) ==
  CASE ev.kind = "line" ->
         IF ev.line.scheme = "https" /\ ev.line.label # "api"
         THEN SettledAs(a, "resolved", ev.line, "none")
         ELSE a.outcome = "pending" /\ ~a.settled
    [] ev.kind = "timeout" ->
         SettledAs(a, "rejected", NoUrl, "timed out waiting for cloudflared URL") /\ a.sigterm
    [] ev.kind = "error" -> SettledAs(a, "rejected", NoUrl, "spawn error")
    [] ev.kind = "exit" -> SettledAs(a, "rejected", NoUrl, "cloudflared exited before URL")

\* C28: an attempt is settled by the first of: a line with a valid URL
\* (resolved with that URL), the timeout (SIGTERM, rejected), a spawn error,
\* the exit of the child (rejected); once settled, no later line, exit or
\* timer changes its outcome, and no other event settles an attempt that
\* has spawned its child
C28_SettlesOnce ==
  [][\A k \in Attempts :
       LET a == tun.att[k]
           b == tun'.att[k]
       IN IF a.outcome # "pending"
          THEN b.outcome = a.outcome /\ b.url = a.url /\ b.error = a.error
          ELSE IF Handles(k) THEN SettledBy(b, tun'.last)
          ELSE b.outcome = "pending" \/ b.timer = "unset"]_vars

\* a valid URL arrives from the child of an attempt that timed out
C28_Witness ==
  /\ tun.last.kind = "line" /\ IsValidQuickTunnelUrl(tun.last.line)
  /\ tun.last.attempt = 1
  /\ tun.att[1].outcome = "rejected" /\ tun.att[1].sigterm

LiveChildren == {k \in Attempts : tun.att[k].child = "alive"}

\* C29: at most maxAttempts spawns; no spawn after the call returned or threw;
\* it returns the URL of the attempt that succeeded; at most one child is alive
\* at a time; after the last failure it throws the last attempt's message
C29_BoundedRetry ==
  /\ [](/\ tun.pc # "unused" => tun.spawns <= MaxAttempts
        /\ Cardinality(LiveChildren) <= 1
        /\ tun.pc = "returned" =>
             /\ tun.att[tun.attempt].outcome = "resolved"
             /\ tun.publicUrl = tun.att[tun.attempt].url
        /\ tun.pc = "threw" =>
             /\ tun.att[MaxAttempts].outcome = "rejected"
             /\ tun.thrown = tun.att[MaxAttempts].error)
  /\ [][tun.pc \in {"returned", "threw"} => tun'.spawns = tun.spawns]_vars

\* ---------------------------------------------------------------------------
\* auditQuery
\* ---------------------------------------------------------------------------

\* audit events appended in one run
MaxAuditWrites == 1

DefaultAuditLimit == 500
MaxAuditLimit == 10000

\* The audit file is given by its number of lines and by what produced it:
\* "clean" files hold events only, "mixed" files also hold lines that are
\* blank, that are not JSON, that are JSON `null`, and JSON that is not an
\* object.  The content of line n is a function of n, and an event is
\* named by the number of its line.
AuditFiles ==
  [pattern : {"mixed"}, lines : {0, 9, 1000}] \cup [pattern : {"clean"}, lines : {10003}]

LineKind(pattern, n) ==
  IF pattern = "clean" THEN "event"
  ELSE CASE n % 7 = 3 -> "malformed"
         [] n % 11 = 5 -> "null"
         [] n % 13 = 6 -> "scalar"
         [] n % 17 = 8 -> "blank"
         [] OTHER -> "event"

\* a time stamp: its Date.parse value (NotANumber if it does not parse) and
\* its rank in the order of strings
NoTs == [ms |-> NotANumber, lex |-> Absent]

\* JSON.parse of line n; a scalar has none of the fields
ParsedLine(pattern, n) ==
  IF LineKind(pattern, n) = "event"
  THEN [id |-> IF n % 2 = 0 THEN "a" ELSE "b",
        event |-> IF n % 3 = 0 THEN "exposure_started" ELSE "exposure_stopped",
        type |-> IF n % 5 < 2 THEN "port" ELSE "files",
        ts |-> IF n % 19 = 9 THEN [ms |-> NotANumber, lex |-> n] ELSE [ms |-> n, lex |-> n]]
  ELSE [id |-> "undefined", event |-> "undefined", type |-> "undefined", ts |-> NoTs]

\* the filters; "" is a string filter that is not given
LimitOptions == {Absent, NotANumber, -4, 0, 3, 14, 1200, 40000}
NoFilters ==
  [id |-> "", event |-> "", type |-> "", from_ts |-> NoTs, to_ts |-> NoTs, limit |-> Absent]
AuditFilters ==
  [id : {"", "a"}, event : {"", "exposure_started"}, type : {"", "port"},
   from_ts : {NoTs, [ms |-> 4, lex |-> 4], [ms |-> NotANumber, lex |-> 2]},
   to_ts : {NoTs, [ms |-> 600, lex |-> 600]},
   limit : LimitOptions]

\* timestampMs(input) is undefined
NoMs(ts) == ts.ms = NotANumber

MatchAuditFilters(event, filters) ==
  /\ filters.id # "" => event.id = filters.id
  /\ filters.event # "" => event.event = filters.event
  /\ filters.type # "" => event.type = filters.type
  /\ filters.from_ts # NoTs =>
       IF ~NoMs(filters.from_ts) /\ ~NoMs(event.ts)
       THEN ~(event.ts.ms < filters.from_ts.ms)
       ELSE ~(event.ts # NoTs /\ event.ts.lex < filters.from_ts.lex)
  /\ filters.to_ts # NoTs =>
       IF ~NoMs(filters.to_ts) /\ ~NoMs(event.ts)
       THEN ~(event.ts.ms > filters.to_ts.ms)
       ELSE ~(event.ts # NoTs /\ event.ts.lex > filters.to_ts.lex)

\* Math.max(1, Math.min(10_000, Math.trunc(filters?.limit ?? 500)))
AuditLimit(filters) ==
  JsMax(1, JsMin(MaxAuditLimit, JsTrunc(Coalesce(filters.limit, Halves(DefaultAuditLimit)))))

\* q.slice(-limit); -NaN is NaN, and slice(NaN) is slice(0)
SliceLastIgnoringLimit(q, limit) == q

SliceLast(q, limit) ==
  IF limit = NotANumber \/ limit >= Len(q) THEN q
  ELSE SubSeq(q, Len(q) - limit + 1, Len(q))

\* the lines that are left after trim, filter(Boolean), JSON.parse and
\* filter(Boolean)
AuditEvents(file) ==
  SelectSeq([n \in 1..file.lines |-> n],
            LAMBDA n : LineKind(file.pattern, n) \in {"event", "scalar"})

AuditQueryResult(file, filters) ==
  SliceLast(SelectSeq(AuditEvents(file),
                      LAMBDA n : MatchAuditFilters(ParsedLine(file.pattern, n), filters)),
            AuditLimit(filters))

\* missing: readFile fails with ENOENT
AqueryInit ==
  /\ LifeInit /\ UnitsUnused
  /\ MergeUnused /\ PstoreUnused /\ GcUnused /\ ForiginUnused /\ TunUnused
  /\ TrafficUnused /\ CliUnused
  /\ \E file \in AuditFiles, missing \in BOOLEAN :
       /\ missing => file.lines = 0
       /\ aquery = [pc |-> "idle", file |-> file, missing |-> missing, writes |-> 0,
                    filters |-> NoFilters, read |-> file, res |-> <<>>]

\* writeAudit: one line appended; appendFile creates the file
AuditAppend ==
  /\ aquery.pc # "unused" /\ aquery.writes < MaxAuditWrites
  /\ aquery' = [aquery EXCEPT !.file.lines = @ + 1, !.missing = FALSE, !.writes = @ + 1]
  /\ UNCHANGED NotAqueryVars

\* auditQuery(filters); `read` is the file as it was read
AuditQuery(filters) ==
  /\ aquery.pc = "idle"
  /\ aquery' = [aquery EXCEPT !.pc = "returned", !.filters = filters, !.read = aquery.file,
                              !.res = IF aquery.missing THEN <<>>
                                      ELSE AuditQueryResult(aquery.file, filters)]
  /\ UNCHANGED NotAqueryVars

AqueryNext ==
  \/ AuditAppend
  \/ \E filters \in AuditFilters : AuditQuery(filters)

SpecAquery == AqueryInit /\ [][AqueryNext]_vars

\* the well-formed events of the file that was read
WellFormed == IF aquery.missing /\ aquery.read.lines = 0 THEN <<>> ELSE AuditEvents(aquery.read)

Matching ==
  SelectSeq(WellFormed,
            LAMBDA n : MatchAuditFilters(ParsedLine(aquery.read.pattern, n), aquery.filters))

\* the limit of the claim: 500 if none is given, else the whole part of the
\* number, raised to 1 and lowered to 10000
ClampedLimit(limit) ==
  IF limit = Absent THEN 500
  ELSE IF TruncHalves(limit) < 1 THEN 1
  ELSE IF TruncHalves(limit) > 10000 THEN 10000
  ELSE TruncHalves(limit)

\* res is the last min(k, Len(q)) elements of q
IsLast(res, k, q) ==
  /\ Len(res) = MathMin(k, Len(q))
  /\ \A i \in 1..Len(res) : res[i] = q[Len(q) - Len(res) + i]

\* query(no filters) on the file that was read
QueryAll == IF aquery.missing /\ aquery.read.lines = 0 THEN <<>>
            ELSE AuditQueryResult(aquery.read, NoFilters)

StepRank(pc) ==
  CASE pc = "idle" -> 0
    [] pc = "term" -> 1
    [] pc = "proxyClose" -> 2
    [] pc = "originClose" -> 3
    [] pc = "fsCheck" -> 4
    [] pc = "rm" -> 5
    [] pc = "audit" -> 6
    [] pc = "persist" -> 7
    [] pc = "done" -> 8

\* the call of src for id i takes a step from position `from` to position `to`
Steps(i, src, from, to) ==
  /\ calls[i][src].pc = from /\ calls'[i][src].pc = to
  /\ from # to

\* the call passes the position pc in this step without stopping at it
Passes(i, src, pc) ==
  /\ calls'[i][src].pc # calls[i][src].pc
  /\ calls'[i][src].pc \in InFlight
  /\ StepRank(calls[i][src].pc) < StepRank(pc)
  /\ StepRank(pc) < StepRank(calls'[i][src].pc)

StopsInFlight(i) == {src \in Srcs : calls[i][src].pc \in InFlight}

BringUpFinished(i) == up[i].pc \in {"returned", "threw"}

\* C34: the status becomes running only for a session that is in the table
\* and that no stopExposure call has taken up; and once the bring-up and the
\* stops of a session have finished, a session without table entry has no live
\* tunnel child, no listening proxy or origin server and no armed TTL timer
C34_StopWhileStarting ==
  /\ [](\A i \in Ids :
          (BringUpFinished(i) /\ i \notin tab /\ StopsInFlight(i) = {})
            => /\ child[i] # "alive" /\ timer[i] # "armed"
               /\ proxy[i] # "listening" /\ origin[i] # "listening")
  /\ [][\A i \in Ids :
          (status[i] # "running" /\ status'[i] = "running")
            => (i \in tab /\ StopsInFlight(i) = {} /\ stoppedBy[i] = {})]_vars

\* C35: while a stop of a running session is in flight and has signalled the
\* child, the status goes from running to stopped or expired only: the exit of
\* the child does not set it to error
C35_StopNeverShowsError ==
  [][\A i \in Ids :
       (status[i] = "running" /\ StopsInFlight(i) # {} /\ killed[i])
         => status'[i] \in {"running", "stopped", "expired"}]_vars

\* C36: every exposure_stopped or exposure_expired event of the audit log is
\* preceded by an exposure_started event of the same id
C36_StopEventAfterStartEvent ==
  \A k \in 1..Len(audit) :
    audit[k].event \in StopEvents
      => \E j \in 1..(k - 1) : audit[j] = [event |-> "exposure_started", id |-> audit[k].id]

\* ------------------------------------------------------------------------
\* stopExposure when a cleanup step throws.

\* the ids the call found in the table and went through
Processed == stopCall.had \cap Asked

CleanupThrew(i) == [id |-> i, error |-> "rm"] \in Range(stopCall.res.failed)

\* C37: when stopExposure returns, no id it processed is in the table; an id
\* whose cleanup threw is listed in failed and not in stopped, its status is as
\* it was and the audit log has no event for it; every other processed id is
\* listed in stopped
C37_ProcessedIdsLeaveTable ==
  stopCall.pc = "returned" =>
    \A i \in Processed :
      /\ i \notin Range(mgr.sessions)
      /\ IF CleanupThrew(i)
         THEN /\ i \notin StoppedIds
              /\ mgr.status[i] = "running"
              /\ \A k \in 1..Len(mgr.audit) : mgr.audit[k].id # i
         ELSE i \in StoppedIds /\ i \notin FailedIds

\* a call has stopped one session and failed to remove the workspace of another
C37_Witness ==
  /\ stopCall.pc = "returned"
  /\ \E i \in Processed, j \in Processed :
       /\ CleanupThrew(i) /\ mgr.dir[i] /\ mgr.onDisk[i]
       /\ j \in StoppedIds /\ mgr.status[j] \in {"stopped", "expired"}

\* C38: when expose_files has thrown, for whatever reason, the workspace
\* directory created for the call is not on disk
C38_FailedFilesLeavesNoWorkspace ==
  \A i \in Ids : up[i].pc = "threw" => ~ws[i]

\* C39: run_gc never removes the workspace directory of an expose_files call
\* that has created it and whose session has not been stopped
C39_GcSparesBringUpWorkspace ==
  [][("n" \in gc.dirs /\ gc.files \in {"summarize", "inserted"}) => "n" \in gc'.dirs]_vars

\* ------------------------------------------------------------------------
\* The responses of the file origin.

ErrorKinds ==
  {"rate_limited", "not_found", "not_file", "method_not_allowed", "invalid_range",
   "internal_error"}

\* C33: a request handled by the file origin has got a response, the handler
\* has not rejected, a response with an error status carries an error kind, and
\* a path that cannot be percent-decoded is answered 500 internal_error
C33_EveryRequestAnswered ==
  forigin.req.pc \notin {"unused", "none"} =>
    /\ forigin.req.pc = "done"
    /\ forigin.res.status # 0
    /\ forigin.res.status >= 400 => forigin.res.body \in ErrorKinds
    /\ (~forigin.req.limited /\ ~NewUrlThrows(forigin.req.raw)
          /\ DecodeThrows(UrlPathname(forigin.req.raw)))
         => forigin.res = OriginJson(500, "internal_error")

\* ------------------------------------------------------------------------
\* session.stats.requests and session.stats.bytesSent of one exposure: client
\* requests arrive through the tunnel one at a time; the tunnel leads to the
\* reverse proxy when there is one, else to the file server (files) or to the
\* local service (port).

MaxClientRequests == 2
MaxBody == 2

\* exposePort / exposeFiles: is a reverse proxy started in front of the target
HasProxy(type, protectOrigin, allowlisted, rateLimitEnabled) ==
  IF type = "port" THEN protectOrigin \/ allowlisted \/ rateLimitEnabled ELSE protectOrigin

\* JSON.stringify({error: err}).length
JsonErrorBytes(err) == 12 + Len(err)

\* JSON.stringify({error: "path_not_allowed", path: pathname}).length
PathNotAllowedBytes(pathname) == JsonErrorBytes("path_not_allowed") + 10 + Len(pathname)

\* pc: none | upstream (the request is with the target behind the proxy, or
\* with the local service) | streaming | done | threw (the listener was left
\* by an exception, no response); left: body bytes the target has still to send
NoClientRequest == [pc |-> "none", left |-> 0]

\* what the checks of the proxy's listener may decide under the exposure's options
ProxyVerdicts(t) ==
  {"throws", "forward"}
    \cup (IF t.rateLimitEnabled THEN {"429"} ELSE {})
    \cup (IF t.allowlisted THEN {"403"} ELSE {})
    \cup (IF t.protectOrigin THEN {"401"} ELSE {})

\* what the file server's listener may decide
OriginVerdicts(t) ==
  {"throws", "404", "file"} \cup (IF t.rateLimitEnabled THEN {"429"} ELSE {})

TrafficInit ==
  /\ LifeInit /\ UnitsUnused
  /\ MergeUnused /\ PstoreUnused /\ GcUnused /\ ForiginUnused /\ TunUnused /\ AqueryUnused
  /\ CliUnused
  /\ \E type \in {"port", "files"}, protectOrigin \in BOOLEAN, allowlisted \in BOOLEAN,
        rateLimitEnabled \in BOOLEAN :
       traffic = [type |-> type, protectOrigin |-> protectOrigin, allowlisted |-> allowlisted,
                  rateLimitEnabled |-> rateLimitEnabled,
                  proxied |-> HasProxy(type, protectOrigin, allowlisted, rateLimitEnabled),
                  requests |-> 0, bytesSent |-> 0,
                  arrived |-> 0, delivered |-> 0,
                  req |-> NoClientRequest]

\* the reverse proxy's request listener, to its return
ProxyListener(t, verdict) ==
  IF verdict = "throws" THEN [t EXCEPT !.req.pc = "threw"]
  ELSE LET c == [t EXCEPT !.requests = @ + 1]
       IN CASE verdict = "429" ->
                 [c EXCEPT !.delivered = @ + JsonErrorBytes("rate_limited"), !.req.pc = "done"]
            [] verdict = "403" ->
                 [c EXCEPT !.delivered = @ + PathNotAllowedBytes("/"), !.req.pc = "done"]
            [] verdict = "401" ->
                 [c EXCEPT !.delivered = @ + JsonErrorBytes("unauthorized"), !.req.pc = "done"]
            [] OTHER -> [c EXCEPT !.req.pc = "upstream"]

\* the file server's request listener, to the first byte of its response:
\* sendFileResponse adds the file's size before pipeline() sends it
OriginListener(t, verdict, size) ==
  LET c == [t EXCEPT !.requests = @ + 1]
  IN CASE verdict = "429" ->
            [c EXCEPT !.req = [pc |-> "streaming", left |-> JsonErrorBytes("rate_limited")]]
       [] verdict = "throws" -> [c EXCEPT !.req.pc = "threw"]
       [] verdict = "404" ->
            [c EXCEPT !.req = [pc |-> "streaming", left |-> JsonErrorBytes("not_found")]]
       [] OTHER ->
            [c EXCEPT !.bytesSent = @ + size, !.req = [pc |-> "streaming", left |-> size]]

\* a client request comes out of the tunnel at the tunnel's target port
ClientRequest(pv, ov, size) ==
  /\ traffic.req.pc \in {"none", "done", "threw"}
  /\ traffic.arrived < MaxClientRequests
  /\ LET t == [traffic EXCEPT !.arrived = @ + 1, !.req = NoClientRequest]
     IN traffic' = IF t.proxied THEN ProxyListener(t, pv)
                   ELSE IF t.type = "files" THEN OriginListener(t, ov, size)
                   ELSE [t EXCEPT !.req.pc = "upstream"]
  /\ UNCHANGED NotTrafficVars

\* the proxy's upstream request reaches the file server
UpstreamOrigin(ov, size) ==
  /\ traffic.req.pc = "upstream" /\ traffic.type = "files"
  /\ traffic' = OriginListener(traffic, ov, size)
  /\ UNCHANGED NotTrafficVars

\* the local service of a port exposure answers with a body of `size` bytes
ServiceAnswer(size) ==
  /\ traffic.req.pc = "upstream" /\ traffic.type = "port"
  /\ traffic' = [traffic EXCEPT !.req = [pc |-> "streaming", left |-> size]]
  /\ UNCHANGED NotTrafficVars

\* proxyReq.on("error") before the upstream has answered: 502 proxy_error
UpstreamFails ==
  /\ traffic.req.pc = "upstream" /\ traffic.proxied
  /\ traffic' = [traffic EXCEPT !.delivered = @ + JsonErrorBytes("proxy_error"),
                                !.req.pc = "done"]
  /\ UNCHANGED NotTrafficVars

\* a chunk of c body bytes goes to the client; behind the proxy it passes
\* proxyRes.on("data"), which adds its length
StreamChunk(c) ==
  /\ traffic.req.pc = "streaming" /\ c \in 1..traffic.req.left
  /\ traffic' = [traffic EXCEPT !.req.left = @ - c, !.delivered = @ + c,
                                !.bytesSent = IF traffic.proxied THEN @ + c ELSE @]
  /\ UNCHANGED NotTrafficVars

\* the body has been sent
BodyEnd ==
  /\ traffic.req.pc = "streaming" /\ traffic.req.left = 0
  /\ traffic' = [traffic EXCEPT !.req.pc = "done"]
  /\ UNCHANGED NotTrafficVars

\* the client closes the connection while the body is being sent
ClientAbort ==
  /\ traffic.req.pc = "streaming" /\ traffic.req.left > 0
  /\ traffic' = [traffic EXCEPT !.req = [pc |-> "done", left |-> 0]]
  /\ UNCHANGED NotTrafficVars

TrafficNext ==
  \/ \E pv \in ProxyVerdicts(traffic), ov \in OriginVerdicts(traffic), size \in 0..MaxBody :
        ClientRequest(pv, ov, size)
  \/ \E ov \in OriginVerdicts(traffic), size \in 0..MaxBody : UpstreamOrigin(ov, size)
  \/ \E size \in 0..MaxBody : ServiceAnswer(size)
  \/ UpstreamFails
  \/ \E c \in {1, traffic.req.left} : StreamChunk(c)
  \/ BodyEnd
  \/ ClientAbort

SpecTraffic == TrafficInit /\ [][TrafficNext]_vars

\* C40: each client request arriving through the tunnel increases
\* stats.requests by exactly one and stats.bytesSent by exactly the number of
\* body bytes delivered to that client, for port exposures and for files
\* exposures, with or without the reverse proxy: between requests the two
\* counters equal the number of requests arrived and the bytes delivered.
C40_StatsMatchClientTraffic ==
  traffic.req.pc \in {"none", "done", "threw"} =>
    /\ traffic.requests = traffic.arrived
    /\ traffic.bytesSent = traffic.delivered

\* ------------------------------------------------------------------------
\* cli.ts: an expose command without --keep-alive.  The parent spawns the
\* detached worker and polls the handoff file; the worker runs the tool and
\* writes its result, or the message of its error, to the handoff file.

DETACHED_HANDOFF_TIMEOUT_MS == 45000
PollIntervalMs == 100
MaxClock == 45100

\* the text of a file: json is FALSE for text that JSON.parse rejects (the
\* empty text of a file that has been opened and not yet written)
EmptyText == [json |-> FALSE, ok |-> FALSE, result |-> "", error |-> ""]
NoPayload == [json |-> FALSE, ok |-> FALSE, result |-> "none", error |-> "none"]

\* JSON.stringify({ ok: true, result }) and JSON.stringify({ ok: false, error })
OkPayload(result) == [json |-> TRUE, ok |-> TRUE, result |-> result, error |-> ""]
ErrorPayload(message) == [json |-> TRUE, ok |-> FALSE, result |-> "", error |-> message]

WorkerResults == {"url1", "url2"}
WorkerErrors == {"tunnel failed"}

NoOutcome == [kind |-> "none", value |-> ""]

\* waitForDetachedHandoff after readFile and rm: JSON.parse and the three ways out
ParseHandoff(raw) ==
  IF ~raw.json THEN [kind |-> "SyntaxError", value |-> ""]
  ELSE IF raw.ok THEN [kind |-> "result", value |-> raw.result]
  ELSE IF raw.error # "" THEN [kind |-> "error", value |-> raw.error]
  ELSE [kind |-> "error", value |-> "failed to start detached exposure"]

\* file: the handoff path; fdLinked: the file the worker's writeFileSync has
\* opened is still the one at the handoff path
CliInit ==
  /\ LifeInit /\ UnitsUnused
  /\ MergeUnused /\ PstoreUnused /\ GcUnused /\ ForiginUnused /\ TunUnused /\ AqueryUnused
  /\ TrafficUnused
  /\ cli = [now |-> 0, startedAt |-> 0, ppc |-> "poll", wake |-> 0, raw |-> NoPayload,
            outcome |-> NoOutcome, sigterm |-> FALSE,
            wpc |-> "running", payload |-> NoPayload,
            file |-> [exists |-> FALSE, text |-> EmptyText], fdLinked |-> FALSE,
            written |-> NoPayload, writtenAt |-> 0]

\* the clock; the parent's own steps take no time and its timer fires on time
CliTick ==
  /\ cli.ppc = "done" \/ (cli.ppc = "sleep" /\ cli.now < cli.wake)
  /\ cli.now + PollIntervalMs <= MaxClock
  /\ cli' = [cli EXCEPT !.now = @ + PollIntervalMs]
  /\ UNCHANGED NotCliVars

\* waitForDetachedHandoff: the loop condition holds, fs.readFile
ParentRead ==
  /\ cli.ppc = "poll" /\ cli.now - cli.startedAt < DETACHED_HANDOFF_TIMEOUT_MS
  /\ cli' = IF cli.file.exists
            THEN [cli EXCEPT !.ppc = "rm", !.raw = cli.file.text]
            ELSE [cli EXCEPT !.ppc = "sleep", !.wake = cli.now + PollIntervalMs]
  /\ UNCHANGED NotCliVars

\* fs.rm(filePath, { force: true }), then JSON.parse(raw) and the result
ParentRm ==
  /\ cli.ppc = "rm"
  /\ LET parsed == ParseHandoff(cli.raw)
         c == [cli EXCEPT !.file = [exists |-> FALSE, text |-> EmptyText], !.fdLinked = FALSE]
     IN cli' = IF parsed.kind = "SyntaxError"
               THEN [c EXCEPT !.ppc = "sleep", !.wake = cli.now + PollIntervalMs]
               ELSE [c EXCEPT !.ppc = "done", !.outcome = parsed]
  /\ UNCHANGED NotCliVars

\* the setTimeout of 100 ms fires
ParentWake ==
  /\ cli.ppc = "sleep" /\ cli.now >= cli.wake
  /\ cli' = [cli EXCEPT !.ppc = "poll"]
  /\ UNCHANGED NotCliVars

\* the loop condition fails: process.kill(workerPid, "SIGTERM") and the error
ParentTimeout ==
  /\ cli.ppc = "poll" /\ cli.now - cli.startedAt >= DETACHED_HANDOFF_TIMEOUT_MS
  /\ cli' = [cli EXCEPT !.ppc = "done", !.sigterm = TRUE,
                        !.outcome = [kind |-> "error",
                                     value |-> "timed out waiting for detached exposure startup"],
                        !.wpc = IF @ \in {"exited"} THEN @ ELSE "terminated"]
  /\ UNCHANGED NotCliVars

\* worker: runTool has returned; writeHandoffFile has written the temporary file
WorkerSucceeds(result) ==
  /\ cli.wpc = "running"
  /\ cli' = [cli EXCEPT !.wpc = "tmpWritten", !.payload = OkPayload(result)]
  /\ UNCHANGED NotCliVars

\* worker: fs.rename(tempPath, filePath)
WorkerRename ==
  /\ cli.wpc = "tmpWritten"
  /\ cli' = [cli EXCEPT !.wpc = "serving",
                        !.file = [exists |-> TRUE, text |-> cli.payload], !.fdLinked = FALSE,
                        !.written = cli.payload, !.writtenAt = cli.now]
  /\ UNCHANGED NotCliVars

\* worker: main() has rejected; writeFileSync opens the handoff path (O_CREAT | O_TRUNC)
WorkerFails(message) ==
  /\ cli.wpc = "running"
  /\ cli' = [cli EXCEPT !.wpc = "opened", !.payload = ErrorPayload(message),
                        !.file = [exists |-> TRUE, text |-> EmptyText], !.fdLinked = TRUE]
  /\ UNCHANGED NotCliVars

\* worker: writeFileSync writes the text to the file it has opened, then
\* process.exit(1)
WorkerWrite ==
  /\ cli.wpc = "opened"
  /\ cli' = [cli EXCEPT !.wpc = "exited",
                        !.file = IF cli.fdLinked THEN [exists |-> TRUE, text |-> cli.payload] ELSE @,
                        !.written = cli.payload, !.writtenAt = cli.now]
  /\ UNCHANGED NotCliVars

CliNext ==
  \/ CliTick
  \/ ParentRead
  \/ ParentRm
  \/ ParentWake
  \/ ParentTimeout
  \/ \E result \in WorkerResults : WorkerSucceeds(result)
  \/ WorkerRename
  \/ \E message \in WorkerErrors : WorkerFails(message)
  \/ WorkerWrite

SpecCli == CliInit /\ [][CliNext]_vars

\* what the parent reports for a payload
ReportOf(payload) ==
  IF payload.ok THEN [kind |-> "result", value |-> payload.result]
  ELSE [kind |-> "error", value |-> payload.error]

TimedOut ==
  cli.outcome = [kind |-> "error", value |-> "timed out waiting for detached exposure startup"]

\* C31: whenever the worker has written a handoff payload the parent gets to
\* read exactly that payload and reports it (while the parent still waits, the
\* payload written is at the handoff path or has been read); the parent
\* reports "timed out waiting for detached exposure startup" and sends SIGTERM
\* only if no payload was written within 45 s.
C31_HandoffReported ==
  /\ (cli.written # NoPayload /\ cli.outcome = NoOutcome)
       => \/ cli.file = [exists |-> TRUE, text |-> cli.written]
          \/ cli.raw = cli.written
  /\ (cli.outcome # NoOutcome /\ ~TimedOut) => cli.outcome = ReportOf(cli.written)
  /\ cli.sigterm => TimedOut
  /\ TimedOut
       => \/ cli.written = NoPayload
          \/ cli.writtenAt - cli.startedAt >= DETACHED_HANDOFF_TIMEOUT_MS

====
